---- MODULE Spec2Model ----
(***************************************************************************)
(* Model of the kickstarter-ai-scraper fetch + resume core:                *)
(*   storage/json_store.py  JSONStore (append-only JSON-lines log with     *)
(*                          dedup by id) and Checkpoint                    *)
(*   scraper.py             _scrape_pages / run_scrape (discovery)         *)
(*   api/client.py          RateLimiter, KickstarterClient._request_json   *)
(*                          and discover_all_pages                         *)
(*   detail_scraper.py      run_detail_scrape and _get_session_and_csrf    *)
(* Each component has its own specification over the shared variables; the *)
(* variables a specification does not use stay at their initial value.     *)
(***************************************************************************)
EXTENDS Integers, Sequences, FiniteSets, TLC

VARIABLES
    \* storage/json_store.py
    file,        \* projects.jsonl: the sequence of chunks written to it
    seen_ids,    \* JSONStore._seen_ids of the live store instance
    last,        \* the last store call of the live instance and what it returned
    cp_file,     \* the checkpoint document on disk
    cp_data,     \* Checkpoint._data of the live checkpoint instance
    cp_last,     \* the last Checkpoint call (or crash) and the term it was about
    cp_called,   \* the terms mark_term_done was called with so far
    cp_marked,   \* the terms mark_term_done returned for so far
    cp_pure,     \* whether the file was written by mark_term_done calls only
    \* the paginators: _scrape_pages' parameter and client.discover_all_pages
    max_pages,
    all_pc,      \* discover_all_pages: idle, discover, sleep, returned
    all_page,
    all_projects,
    all_fetches, \* discover calls issued by the current discover_all_pages call
    \* detail_scraper.py: the locals of run_detail_scrape and of the
    \* _get_session_and_csrf call it is in, and a record of what it has sent
    dt,
    ad,          \* JSONStore.add invocations in progress on one store, and a
                 \* record of how they overlapped and what they returned
    rl_cfg,      \* RateLimiter: the rps it was constructed with, _interval
    hr,          \* KickstarterClient._request_html: where the call is, what it
                 \* used so far, and the client's lazily launched browser
    \* scraper.py: run_scrape / _scrape_pages
    run_pc,      \* where the run is: idle, for, discover, sleep_fail, sleep_page,
                 \* finished, interrupted
    runs,        \* how many runs were started
    ki,          \* index of the key the for loop of run_scrape is at
    completed,   \* run_scrape's local `completed`
    page,
    consecutive_failures,
    added,
    source,      \* the remote search results per key (fixed during a behaviour)
    page_delay,  \* whether the configured page_delay is > 0
    fetches,     \* discover calls issued per key in the current run
    how,         \* per key, how its most recent pagination ended
    snap,        \* the records of the log at the most recent interrupt
    pgh,         \* what the current _scrape_pages call did: the outcome of each
                 \* discover call, and the pages it passed to the store
    \* api/client.py: KickstarterClient._request_json
    f_pc,        \* idle, acquire, http, sleep, done
    attempt,
    max_retries,
    trace,       \* per HTTP attempt of the fetch: the outcome and the wait after it
    grants,      \* rate-limiter grants the fetch consumed
    result,      \* what the fetch returned or raised
    \* api/client.py: RateLimiter
    now,         \* time.monotonic()
    rl_last,     \* RateLimiter._last
    lockq,       \* RateLimiter._lock: the holder followed by the waiters, in order
    c_pc,        \* per caller of acquire(): idle, waiting, sleeping
    wake,        \* per sleeping caller: when its sleep is over
    grant_times  \* the stamps of the grants, in order

storeVars == <<file, seen_ids, last>>
cpVars == <<cp_file, cp_data>>
cpHist == <<cp_last, cp_called, cp_marked, cp_pure>>
scrapeVars == <<run_pc, runs, ki, completed, page, consecutive_failures, added,
                source, page_delay, fetches, how, snap, pgh>>
fetchVars == <<f_pc, attempt, max_retries, trace, grants, result>>
rlVars == <<now, rl_last, lockq, c_pc, wake, grant_times>>
\* the variables added for the specifications that follow the first five
pgVars == <<max_pages, all_pc, all_page, all_projects, all_fetches>>
lateVars == <<ad, rl_cfg, hr>>
restVars == <<cpHist, pgVars, dt, lateVars>>
vars == <<storeVars, cpVars, scrapeVars, fetchVars, rlVars, restVars>>

(***************************************************************************)
(* Bounds                                                                  *)
(***************************************************************************)
MaxFile == 3
\* max_pages of _scrape_pages (200 in the code), scaled down
MaxPages == 2

(***************************************************************************)
(* Records and the log file                                                *)
(***************************************************************************)
\* Python's None as the value of record.get("id"); real ids are positive
None == 0
Ids == {1, 2, 3}
\* raw records: a mapping with an (optional) integer id and some content
Records ==
    { [id |-> 1, body |-> "a"], [id |-> 1, body |-> "b"],
      [id |-> 2, body |-> "a"], [id |-> 3, body |-> "a"],
      [id |-> None, body |-> "a"] }
NoRec == [id |-> None, body |-> "-"]

\* json.dumps(record, default=str) + "\n": one newline-terminated JSON text
Dumps(r) == [rec |-> r, text |-> "json", nl |-> TRUE]
\* what a failed write can leave behind: a prefix of Dumps(r) without its
\* newline, either cut inside the JSON text or holding all of it
Truncated == [rec |-> NoRec, text |-> "garbage", nl |-> FALSE]
Unterminated(r) == [rec |-> r, text |-> "json", nl |-> FALSE]
\* a corrupt line written by something other than add
Garbage(nl) == [rec |-> NoRec, text |-> "garbage", nl |-> nl]

\* the lines `for line in f` yields: chunks up to and including a newline;
\* the last line may lack its newline
RECURSIVE SplitFrom(_, _, _)
SplitFrom(f, i, cur) ==
    IF i > Len(f)
    THEN (IF cur = <<>> THEN <<>> ELSE <<cur>>)
    ELSE IF f[i].nl
         THEN <<Append(cur, f[i])>> \o SplitFrom(f, i + 1, <<>>)
         ELSE SplitFrom(f, i + 1, Append(cur, f[i]))
Lines(f) == SplitFrom(f, 1, <<>>)

\* json.loads(line) succeeds exactly on a line that is one whole JSON text
Parses(line) == Len(line) = 1 /\ line[1].text = "json"
Loads(line) == line[1].rec

RECURSIVE MapLoads(_)
MapLoads(ls) == IF ls = <<>> THEN <<>> ELSE <<Loads(Head(ls))>> \o MapLoads(Tail(ls))

\* mutant of LoadAll: one unparseable line makes the whole read fail
LoadAllStrict(f) ==
    IF \A i \in 1..Len(Lines(f)) : Parses(Lines(f)[i]) THEN MapLoads(Lines(f)) ELSE <<>>
\* JSONStore.load_all: the parseable lines in file order
LoadAll(f) == MapLoads(SelectSeq(Lines(f), Parses))

\* mutant of LoadExistingIds: the constructor does not scan the log
LoadExistingIdsNone(f) == {}
\* mutant of LoadExistingIds: the scan gives up at the first unparseable line
LoadExistingIdsStops(f) ==
    LET ls == Lines(f)
        bad == { i \in 1..Len(ls) : ~Parses(ls[i]) }
    IN  { Loads(ls[i]).id : i \in { j \in 1..Len(ls) :
              Loads(ls[j]).id # None /\ \A b \in bad : j < b } }
\* JSONStore._load_existing_ids: ids of the parseable lines that carry one
LoadExistingIds(f) ==
    { LoadAll(f)[i].id : i \in { j \in 1..Len(LoadAll(f)) : LoadAll(f)[j].id # None } }

\* JSONStore.count
Count(seen) == Cardinality(seen)

(***************************************************************************)
(* JSONStore.add as a function of (seen, file)                             *)
(***************************************************************************)
\* `if pid in self._seen_ids: return False`
AddAccepts(seen, r) == r.id \notin seen
\* mutant of AddSeen: the id is not remembered
AddSeenForgets(seen, r) == seen
AddSeen(seen, r) == IF r.id # None THEN seen \cup {r.id} ELSE seen
AddFile(f, r) == Append(f, Dumps(r))

\* JSONStore.add_many: add applied to each record in input order
RECURSIVE AddManyFrom(_, _)
AddManyFrom(st, rs) ==
    IF rs = <<>> THEN st
    ELSE IF AddAccepts(st.seen, Head(rs))
         THEN AddManyFrom([seen |-> AddSeen(st.seen, Head(rs)),
                           file |-> AddFile(st.file, Head(rs)),
                           added |-> st.added + 1], Tail(rs))
         ELSE AddManyFrom(st, Tail(rs))
\* mutant of AddManyResult: every record is tested against the ids seen
\* before the batch
RECURSIVE FromUnseen(_, _)
FromUnseen(seen, rs) ==
    IF rs = <<>> THEN <<>>
    ELSE (IF AddAccepts(seen, Head(rs)) THEN <<Head(rs)>> ELSE <<>>)
             \o FromUnseen(seen, Tail(rs))
AddManyResultStale(seen, f, rs) ==
    [seen |-> seen \cup { FromUnseen(seen, rs)[i].id : i \in 1..Len(FromUnseen(seen, rs)) },
     file |-> f \o [i \in 1..Len(FromUnseen(seen, rs)) |-> Dumps(FromUnseen(seen, rs)[i])],
     added |-> Len(FromUnseen(seen, rs))]
AddManyResult(seen, f, rs) == AddManyFrom([seen |-> seen, file |-> f, added |-> 0], rs)

\* the batches tried: empty, a repeated id inside the batch, distinct ids,
\* a record without id
Batches ==
    { <<>>,
      <<[id |-> 1, body |-> "a"], [id |-> 1, body |-> "b"]>>,
      <<[id |-> 1, body |-> "b"], [id |-> 2, body |-> "a"]>>,
      <<[id |-> 2, body |-> "a"], [id |-> 3, body |-> "a"]>>,
      <<[id |-> 3, body |-> "a"], [id |-> 3, body |-> "a"]>>,
      <<[id |-> 1, body |-> "a"], [id |-> 2, body |-> "a"], [id |-> 1, body |-> "b"]>>,
      <<[id |-> None, body |-> "a"], [id |-> 2, body |-> "a"]>> }

\* what a store call returned: ret for add ("True", "False", "raise"), n for add_many
NoCall == [op |-> "none", arg |-> <<>>, ret |-> "none", n |-> 0]
Fresh == [op |-> "init", arg |-> <<>>, ret |-> "none", n |-> 0]
Called(op, arg, ret, n) == [op |-> op, arg |-> arg, ret |-> ret, n |-> n]

(***************************************************************************)
(* Checkpoint as a function of its document                                *)
(***************************************************************************)
\* the terms a checkpoint is asked about
CpTerms == {"AI|live", "AI|late"}

\* list(completed): the elements of a set as a list, in some order
RECURSIVE ListOf(_)
ListOf(S) ==
    IF S = {} THEN <<>>
    ELSE LET x == CHOOSE y \in S : TRUE IN <<x>> \o ListOf(S \ {x})
\* set(list)
SetOf(l) == { l[i] : i \in 1..Len(l) }

\* _data = {}: a document without entries; a missing "completed_terms" reads
\* as [] and a missing "last_pages" as {}; extra holds the entries under
\* any other key
EmptyDoc == [completed_terms |-> <<>>, last_pages |-> <<>>, extra |-> <<>>]

\* the checkpoint file: missing, or a text that is json.dumps of a document,
\* whole or cut short by a crash during the write
Absent == [kind |-> "absent", doc |-> EmptyDoc]
CutShort == [kind |-> "cut", doc |-> EmptyDoc]
\* mutant of CpSave: the document does not reach the file
CpSaveNothing(d) == Absent
\* Checkpoint._save: path.write_text(json.dumps(_data)) replaces the file
CpSave(d) == [kind |-> "json", doc |-> d]
\* Checkpoint.__init__: _data = json.loads(path.read_text()) if the file
\* exists; {} when it is missing or does not parse
CpLoad(f) == IF f.kind = "json" THEN f.doc ELSE EmptyDoc

GetCompletedTerms(d) == SetOf(d.completed_terms)
\* mutant of MarkTermDone: the list is replaced by the new term alone
MarkTermDoneOnly(d, term) == [d EXCEPT !.completed_terms = <<term>>]
MarkTermDone(d, term) ==
    [d EXCEPT !.completed_terms = ListOf(GetCompletedTerms(d) \cup {term})]
GetLastPage(d, term) == IF term \in DOMAIN d.last_pages THEN d.last_pages[term] ELSE 0
\* mutant of SetLastPage: the map is replaced by the one new entry
SetLastPageOnly(d, term, p) == [d EXCEPT !.last_pages = [t \in {term} |-> p]]
SetLastPage(d, term, p) ==
    [d EXCEPT !.last_pages = [t \in DOMAIN d.last_pages \cup {term} |->
                                 IF t = term THEN p ELSE d.last_pages[t]]]
\* Checkpoint.set(key, value) for a key other than the two above
SetKey(d, key, v) ==
    [d EXCEPT !.extra = [k \in DOMAIN d.extra \cup {key} |->
                            IF k = key THEN v ELSE d.extra[k]]]
\* Checkpoint.clear
Cleared == EmptyDoc

\* the last Checkpoint call: its name and its term; for mark_term_done whether
\* the term was in the completed set already and the size of that set before
\* the call; for a crash or a construction the call that came right before
NoCpCall == [op |-> "none", term |-> "-", after |-> "none", again |-> FALSE, n |-> 0]
CpCalled(op, term, after) ==
    [op |-> op, term |-> term, after |-> after, again |-> FALSE, n |-> 0]
CpMarked(d, term) ==
    [op |-> "mark_term_done", term |-> term, after |-> "none",
     again |-> term \in GetCompletedTerms(d),
     n |-> Cardinality(GetCompletedTerms(d))]

(***************************************************************************)
(* The values of the variables a specification does not use                *)
(***************************************************************************)
\* run_scrape's keys: f"AI|{state}" for state in ("live", "late")
StateKeys == <<"AI|live", "AI|late">>
Keys == { StateKeys[i] : i \in 1..Len(StateKeys) }
NoSource == [pages |-> <<>>, has_more |-> <<>>, total_hits |-> 0]
NoSnap == [taken |-> FALSE, recs |-> <<>>]
NoResult == [kind |-> "none", status |-> 0, why |-> "none"]
\* concurrent callers of RateLimiter.acquire
NCallers == 2
Callers == 1..NCallers
\* self._interval = 1.0 / rps for the default rps, in clock ticks
Interval == 2
MaxTime == 5
\* the most acquire() calls followed
MaxGrants == 4

IdleStore == file = <<>> /\ seen_ids = {} /\ last = NoCall
IdleCp == cp_file = Absent /\ cp_data = EmptyDoc
IdleCpHist == cp_last = NoCpCall /\ cp_called = {} /\ cp_marked = {} /\ cp_pure = TRUE
IdleAll == all_pc = "idle" /\ all_page = 1 /\ all_projects = <<>> /\ all_fetches = 0
\* run_detail_scrape was not called: its locals at the values it starts with
NoDetail ==
    [pc |-> "idle", runs |-> 0, i |-> 1, already_scraped |-> {}, csrf |-> "",
     success |-> 0, failed |-> 0, consecutive_fails |-> 0, project_data |-> FALSE,
     est_for |-> "none", attempt |-> 0, fetches |-> 0, waits |-> <<>>,
     sent |-> 0, sent_empty |-> FALSE, refresh_failed |-> FALSE,
     how |-> "none", tried |-> {}, prev |-> {}, hows |-> <<>>,
     streak |-> 0, periodic |-> 0]
IdleDetail == dt = NoDetail
\* no add is in progress
NoAdd == [pc |-> "idle", rec |-> NoRec, ret |-> "none"]
NoAdders == [calls |-> [c \in Callers |-> NoAdd], overlap |-> FALSE, trues |-> <<>>]
\* RateLimiter(rps=1.0), the default
Built(rps, interval) == [rps |-> rps, interval |-> interval, state |-> "built"]
\* no _curl_get_async call of the HTML fetch has ended yet
NoOutcome == [kind |-> "none", status |-> 0, parses |-> FALSE]
\* no HTML fetch was made and no browser is launched
NoHtml ==
    [pc |-> "idle", calls |-> 0, grants |-> 0, primary |-> 0, secondary |-> 0,
     out |-> NoOutcome, result |-> "none", browser |-> "none"]
IdleLate == ad = NoAdders /\ rl_cfg = Built(1, Interval) /\ hr = NoHtml
IdleRest == IdleCpHist /\ IdleAll /\ max_pages = MaxPages /\ IdleDetail /\ IdleLate
\* _scrape_pages has not called discover yet
NoHist == [calls |-> <<>>, stored |-> <<>>]
IdleRun ==
    /\ run_pc = "idle" /\ runs = 0 /\ ki = 1 /\ completed = {}
    /\ page = 1 /\ consecutive_failures = 0 /\ added = 0
    /\ fetches = [k \in Keys |-> 0]
    /\ how = [k \in Keys |-> "none"]
    /\ snap = NoSnap
    /\ pgh = NoHist
IdleScrape == IdleRun /\ source = [k \in Keys |-> NoSource] /\ page_delay = TRUE
IdleFetch ==
    /\ f_pc = "idle" /\ attempt = 0 /\ max_retries = 0 /\ trace = <<>>
    /\ grants = 0 /\ result = NoResult
IdleRl ==
    /\ now = 0 /\ rl_last = 0 /\ lockq = <<>>
    /\ c_pc = [c \in Callers |-> "idle"] /\ wake = [c \in Callers |-> 0]
    /\ grant_times = <<>>

(***************************************************************************)
(* Store actions                                                           *)
(***************************************************************************)
\* JSONStore(path) on the existing log: a fresh instance
Construct ==
    /\ seen_ids' = LoadExistingIds(file)
    /\ last' = Fresh
    /\ UNCHANGED <<file, cpVars, scrapeVars, fetchVars, rlVars, restVars>>

\* add(r) that returns
Add(r) ==
    /\ IF AddAccepts(seen_ids, r)
       THEN /\ Len(file) < MaxFile
            /\ file' = AddFile(file, r)
            /\ seen_ids' = AddSeen(seen_ids, r)
            /\ last' = Called("add", <<r>>, "True", 0)
       ELSE /\ last' = Called("add", <<r>>, "False", 0)
            /\ UNCHANGED <<file, seen_ids>>
    /\ UNCHANGED <<cpVars, scrapeVars, fetchVars, rlVars, restVars>>

\* add(r) whose write raises OSError: nothing, a cut JSON text or the whole
\* JSON text without its newline reached the file; _seen_ids is not updated
AddWriteFails(r, left) ==
    /\ AddAccepts(seen_ids, r)
    /\ Len(file) < MaxFile
    /\ file' = IF left = "nothing" THEN file
               ELSE IF left = "cut" THEN Append(file, Truncated)
               ELSE Append(file, Unterminated(r))
    /\ last' = Called("add", <<r>>, "raise", 0)
    /\ UNCHANGED <<seen_ids, cpVars, scrapeVars, fetchVars, rlVars, restVars>>

AddMany(rs) ==
    /\ LET res == AddManyResult(seen_ids, file, rs) IN
        /\ Len(res.file) <= MaxFile
        /\ file' = res.file
        /\ seen_ids' = res.seen
        /\ last' = Called("add_many", rs, "none", res.added)
    /\ UNCHANGED <<cpVars, scrapeVars, fetchVars, rlVars, restVars>>

\* a corrupt line appended to the log by another writer or an interrupted process
OutOfBand(nl) ==
    /\ Len(file) < MaxFile
    /\ file' = Append(file, Garbage(nl))
    /\ last' = NoCall
    /\ UNCHANGED <<seen_ids, cpVars, scrapeVars, fetchVars, rlVars, restVars>>

InitStore == IdleStore /\ IdleCp /\ IdleScrape /\ IdleFetch /\ IdleRl /\ IdleRest

NextStore ==
    \/ Construct
    \/ \E r \in Records : Add(r)
    \/ \E r \in Records, left \in {"nothing", "cut", "whole"} : AddWriteFails(r, left)
    \/ \E rs \in Batches : AddMany(rs)
    \/ \E nl \in BOOLEAN : OutOfBand(nl)

SpecStore == InitStore /\ [][NextStore]_vars

(***************************************************************************)
(* Claims about the store                                                  *)
(***************************************************************************)
\* a step that is a call add(r) of the live instance
AddCallStep(r) ==
    /\ last'.op = "add"
    /\ last'.arg = <<r>>
    /\ (last' # last \/ file' # file \/ seen_ids' # seen_ids)

\* C1: for a record r whose id is not yet in the store, add(r) returns True,
\* raises count by exactly 1 and appends exactly the one serialized line of r;
\* the add(r) that follows it returns False and changes neither count nor log.
C1_AddTwice ==
    [][\A r \in Records :
        /\ (AddCallStep(r) /\ r.id # None /\ r.id \notin seen_ids /\ last'.ret # "raise")
              => /\ last'.ret = "True"
                 /\ Count(seen_ids') = Count(seen_ids) + 1
                 /\ file' = Append(file, Dumps(r))
        /\ (AddCallStep(r) /\ r.id # None /\ last = Called("add", <<r>>, "True", 0))
              => /\ last'.ret = "False"
                 /\ Count(seen_ids') = Count(seen_ids)
                 /\ file' = file
    ]_vars

\* the second add(r) has just returned False and r's line from the first is in the log
C1_Witness ==
    /\ last.op = "add" /\ last.ret = "False"
    /\ \E i \in 1..Len(file) : file[i] = Dumps(last.arg[1])
    /\ Count(seen_ids) = 1 /\ Len(file) = 1

\* a log as n successful adds of records with distinct ids leave it
BuiltByAdds(f) ==
    /\ \A i \in 1..Len(f) : f[i].text = "json" /\ f[i].nl /\ f[i].rec.id # None
    /\ \A i, j \in 1..Len(f) : i # j => f[i].rec.id # f[j].rec.id
\* the log without a corrupt trailing line
CleanPart(f) ==
    IF f # <<>> /\ f[Len(f)].text = "garbage" THEN SubSeq(f, 1, Len(f) - 1) ELSE f
RecsOf(f) == [i \in 1..Len(f) |-> f[i].rec]

\* C2: a fresh store on a log built by adding r1..rn (distinct ids), with or
\* without a corrupt trailing line, has count = n, rejects every ri, accepts
\* a record with a new id, and load_all() returns r1..rn in append order.
C2_Resume ==
    (last = Fresh /\ BuiltByAdds(CleanPart(file))) =>
        LET recs == RecsOf(CleanPart(file)) IN
        /\ Count(seen_ids) = Len(recs)
        /\ \A i \in 1..Len(recs) : ~AddAccepts(seen_ids, recs[i])
        /\ \A r \in Records :
              (r.id # None /\ \A i \in 1..Len(recs) : recs[i].id # r.id)
                  => AddAccepts(seen_ids, r)
        /\ LoadAll(file) = recs

\* a fresh store on two added records followed by a corrupt trailing line
C2_Witness ==
    /\ last = Fresh
    /\ Len(file) = 3 /\ file[3].text = "garbage"
    /\ BuiltByAdds(CleanPart(file))
    /\ Count(seen_ids) = 2

\* C10: the in-memory seen-id set equals the set of ids of the records in
\* the persisted log.
C10_SeenAgreesWithLog == seen_ids = LoadExistingIds(file)

Contains(recs, r) == \E i \in 1..Len(recs) : recs[i] = r

\* every chunk of the log is JSON text written by add: no foreign content
WrittenByAdd(f) == \A i \in 1..Len(f) : f[i].text = "json"

\* C11: for a log written only through add/add_many, count equals the number
\* of distinct ids in the log and the number of lines of the log, whatever
\* records were passed in.
C11_CountIsLines ==
    WrittenByAdd(file) =>
        /\ Count(seen_ids) = Cardinality(LoadExistingIds(file))
        /\ Count(seen_ids) = Len(Lines(file))

\* add(r) returned True at some point: its serialized line was written
Accepted(f, r) == r.id # None /\ \E i \in 1..Len(f) : f[i] = Dumps(r)

\* C12: once add(r) returned True, load_all() returns r's content, a later
\* add(r') with r's id returns False and leaves log and count as they are,
\* and no store operation changes or removes a line that is in the log.
C12_FirstWriteWins ==
    [][/\ \A r \in Records :
            Accepted(file', r) =>
                /\ Contains(LoadAll(file'), r)
                /\ \A r2 \in Records : r2.id = r.id => ~AddAccepts(seen_ids', r2)
       /\ \A r2 \in Records :
            (AddCallStep(r2) /\ last'.ret # "raise"
                /\ \E r \in Records : Accepted(file, r) /\ r.id = r2.id /\ r # r2)
              => /\ last'.ret = "False"
                 /\ file' = file
                 /\ Count(seen_ids') = Count(seen_ids)
       /\ \A i \in 1..Len(Lines(file)) :
            /\ i <= Len(Lines(file'))
            /\ Lines(file')[i] = Lines(file)[i]
    ]_vars

\* the positions of a batch that add accepts: the id is not in the store
\* and no earlier record of the batch carries it
AcceptedAt(seen, rs) ==
    { i \in 1..Len(rs) : rs[i].id \notin seen /\ \A j \in 1..(i - 1) : rs[j].id # rs[i].id }
\* the records of rs at the positions in idx, in input order, from position i on
RECURSIVE PickFrom(_, _, _)
PickFrom(rs, idx, i) ==
    IF i > Len(rs) THEN <<>>
    ELSE (IF i \in idx THEN <<rs[i]>> ELSE <<>>) \o PickFrom(rs, idx, i + 1)
HaveIds(rs) == \A i \in 1..Len(rs) : rs[i].id # None

\* C24: add_many(rs), for records that carry an id, appends to the file the
\* serialized lines of exactly the records whose id is neither in the store
\* nor carried by an earlier record of the batch, in input order, and returns
\* their number, which is the increase of count.
C24_AddManyInOrder ==
    [][\A rs \in Batches :
        (last'.op = "add_many" /\ last'.arg = rs /\ HaveIds(rs)
            /\ (last' # last \/ file' # file))
          => LET acc == PickFrom(rs, AcceptedAt(seen_ids, rs), 1) IN
              /\ file' = file \o [i \in 1..Len(acc) |-> Dumps(acc[i])]
              /\ last'.n = Len(acc)
              /\ Count(seen_ids') = Count(seen_ids) + last'.n
    ]_vars

\* add_many of a batch of three whose last record repeats the id of the
\* first has returned 2, and the log holds the first two in input order
C24_Witness ==
    /\ last.op = "add_many" /\ Len(last.arg) = 3 /\ last.n = 2
    /\ file = <<Dumps(last.arg[1]), Dumps(last.arg[2])>>
    /\ last.arg[3].id = last.arg[1].id
    /\ Count(seen_ids) = 2

\* the log ends with text that lacks its newline
PartialTail(f) == f # <<>> /\ ~f[Len(f)].nl

\* C31: an add that returns True on a log ending in a partial line without
\* newline stores a record that load_all returns and whose id a freshly
\* constructed store has seen.
C31_TailCostsNothing ==
    [][\A r \in Records :
        (AddCallStep(r) /\ last'.ret = "True" /\ r.id # None /\ PartialTail(file))
          => /\ Contains(LoadAll(file'), r)
             /\ r.id \in LoadExistingIds(file')
    ]_vars

\* the text of the lines ls, one after the other
RECURSIVE Flatten(_)
Flatten(ls) == IF ls = <<>> THEN <<>> ELSE Head(ls) \o Flatten(Tail(ls))
\* the log f without its i-th line
WithoutLine(f, i) ==
    Flatten([k \in 1..(Len(Lines(f)) - 1) |->
                 IF k < i THEN Lines(f)[k] ELSE Lines(f)[k + 1]])
\* the positions of the parseable lines of f
GoodLines(f) == { i \in 1..Len(Lines(f)) : Parses(Lines(f)[i]) }

\* C25: load_all returns one record per parseable line, in line order; a
\* freshly constructed store has seen the ids of the parseable lines; and
\* the log without any one of its unparseable lines gives the same records
\* and the same ids.
C25_SkipsUnparseable ==
    /\ Len(LoadAll(file)) = Cardinality(GoodLines(file))
    /\ \A i \in GoodLines(file) :
          LoadAll(file)[Cardinality({ j \in GoodLines(file) : j <= i })]
              = Loads(Lines(file)[i])
    /\ last = Fresh
          => seen_ids = { Loads(Lines(file)[i]).id : i \in GoodLines(file) } \ {None}
    /\ \A i \in 1..Len(Lines(file)) \ GoodLines(file) :
          /\ LoadAll(WithoutLine(file, i)) = LoadAll(file)
          /\ LoadExistingIds(WithoutLine(file, i)) = LoadExistingIds(file)

\* a store was constructed on a log whose second of three lines is corrupt:
\* the records before and after it were recovered
C25_Witness ==
    /\ last = Fresh
    /\ Len(Lines(file)) = 3 /\ GoodLines(file) = {1, 3}
    /\ Len(LoadAll(file)) = 2
    /\ Count(seen_ids) = 2

(***************************************************************************)
(* Checkpoint actions: one live instance at a time, as in run_scrape       *)
(***************************************************************************)
\* the pages set_last_page is called with
CpPages == {1, 2}
\* the keys set() is called with
CpKeys == {"note"}
CpLive == cp_last.op \notin {"none", "crash"}
offCheckpoint == <<storeVars, scrapeVars, fetchVars, rlVars, pgVars, dt, lateVars>>

\* Checkpoint(path) on the existing file: a fresh instance
CpConstruct ==
    /\ cp_data' = CpLoad(cp_file)
    /\ cp_last' = IF cp_last.op = "crash"
                  THEN CpCalled("init", cp_last.term, cp_last.after)
                  ELSE CpCalled("init", "-", "none")
    /\ UNCHANGED <<cp_file, cp_called, cp_marked, cp_pure, offCheckpoint>>

\* mark_term_done(term) that returns
MarkTerm(term) ==
    /\ CpLive
    /\ cp_data' = MarkTermDone(cp_data, term)
    /\ cp_file' = CpSave(cp_data')
    /\ cp_last' = CpMarked(cp_data, term)
    /\ cp_called' = cp_called \cup {term}
    /\ cp_marked' = cp_marked \cup {term}
    /\ UNCHANGED <<cp_pure, offCheckpoint>>

\* the process dies inside mark_term_done(term): before the file is opened,
\* or after write_text truncated it and before the whole text is written
MarkTermCrashes(term, left) ==
    /\ CpLive
    /\ cp_data' = EmptyDoc
    /\ cp_file' = IF left = "untouched" THEN cp_file ELSE CutShort
    /\ cp_pure' = (cp_pure /\ left = "untouched")
    /\ cp_last' = CpCalled("crash", term, "unfinished")
    /\ cp_called' = cp_called \cup {term}
    /\ UNCHANGED <<cp_marked, offCheckpoint>>

\* set_last_page(term, p)
SetPage(term, p) ==
    /\ CpLive
    /\ cp_data' = SetLastPage(cp_data, term, p)
    /\ cp_file' = CpSave(cp_data')
    /\ cp_last' = CpCalled("set_last_page", term, "none")
    /\ cp_pure' = FALSE
    /\ UNCHANGED <<cp_called, cp_marked, offCheckpoint>>

\* set(key, value)
CpSet(key, v) ==
    /\ CpLive
    /\ cp_data' = SetKey(cp_data, key, v)
    /\ cp_file' = CpSave(cp_data')
    /\ cp_last' = CpCalled("set", key, "none")
    /\ cp_pure' = FALSE
    /\ UNCHANGED <<cp_called, cp_marked, offCheckpoint>>

\* clear()
Clear ==
    /\ CpLive
    /\ cp_data' = Cleared
    /\ cp_file' = CpSave(cp_data')
    /\ cp_last' = CpCalled("clear", "-", "none")
    /\ cp_pure' = FALSE
    /\ UNCHANGED <<cp_called, cp_marked, offCheckpoint>>

\* the process dies between two calls: the instance is gone, the file stays
CpCrash ==
    /\ CpLive
    /\ cp_data' = EmptyDoc
    /\ cp_last' = CpCalled("crash", cp_last.term, cp_last.op)
    /\ UNCHANGED <<cp_file, cp_called, cp_marked, cp_pure, offCheckpoint>>

InitCheckpoint ==
    /\ IdleStore /\ IdleScrape /\ IdleFetch /\ IdleRl /\ IdleAll /\ max_pages = MaxPages
    /\ IdleDetail /\ IdleLate
    /\ cp_file = Absent
    /\ cp_data = CpLoad(cp_file)
    /\ cp_last = CpCalled("init", "-", "none")
    /\ cp_called = {} /\ cp_marked = {} /\ cp_pure = TRUE

NextCheckpoint ==
    \/ CpConstruct
    \/ \E term \in CpTerms : MarkTerm(term)
    \/ \E term \in CpTerms, left \in {"untouched", "cut"} : MarkTermCrashes(term, left)
    \/ \E term \in CpTerms, p \in CpPages : SetPage(term, p)
    \/ \E key \in CpKeys, v \in CpPages : CpSet(key, v)
    \/ Clear
    \/ CpCrash

SpecCheckpoint == InitCheckpoint /\ [][NextCheckpoint]_vars

\* C13: marking a term that is in the completed set leaves the size of the
\* set as it was, and after any sequence of mark_term_done calls a Checkpoint
\* freshly constructed on the file returns exactly the terms marked so far.
C13_MarkIdempotent ==
    /\ (cp_last.op = "mark_term_done" /\ cp_last.again)
          => Cardinality(GetCompletedTerms(cp_data)) = cp_last.n
    /\ cp_pure => GetCompletedTerms(CpLoad(cp_file)) = cp_marked
    /\ (cp_pure /\ cp_last.op = "init") => GetCompletedTerms(cp_data) = cp_marked

\* both terms were marked and one of them was just marked a second time
C13_Witness ==
    /\ cp_last.op = "mark_term_done" /\ cp_last.again
    /\ cp_pure /\ cp_marked = CpTerms
    /\ GetCompletedTerms(CpLoad(cp_file)) = CpTerms

\* C14: once mark_term_done(term) has returned, the term is in the file: a
\* crash right after it and a fresh Checkpoint on the file keep the term; a
\* term mark_term_done was never called with is not in the completed set.
C14_MarkIsDurable ==
    /\ cp_last.op = "mark_term_done"
          => cp_last.term \in GetCompletedTerms(CpLoad(cp_file))
    /\ (cp_last.op = "crash" /\ cp_last.after = "mark_term_done")
          => cp_last.term \in GetCompletedTerms(CpLoad(cp_file))
    /\ (cp_last.op = "init" /\ cp_last.after = "mark_term_done")
          => cp_last.term \in GetCompletedTerms(cp_data)
    /\ \A term \in CpTerms :
          (term \in GetCompletedTerms(CpLoad(cp_file)) \/ term \in GetCompletedTerms(cp_data))
              => term \in cp_called

\* a Checkpoint constructed after a crash that came right after
\* mark_term_done returned holds the term, and no term that was never marked
C14_Witness ==
    /\ cp_last.op = "init" /\ cp_last.after = "mark_term_done"
    /\ GetCompletedTerms(cp_data) = {cp_last.term}
    /\ cp_called = {cp_last.term}

\* C32: when the process dies inside mark_term_done(term), a Checkpoint
\* constructed on the file it leaves recovers the completed set of before
\* the call, or that set with term added.
C32_CrashKeepsCompleted ==
    [][(cp_last'.op = "crash" /\ cp_last'.after = "unfinished")
          => LET old == GetCompletedTerms(CpLoad(cp_file))
                 new == GetCompletedTerms(CpLoad(cp_file'))
             IN  new = old \/ new = old \cup {cp_last'.term}
    ]_vars

\* the pages of the two documents agree on every term but term
SamePagesBut(d, e, term) ==
    /\ DOMAIN e.last_pages \ {term} = DOMAIN d.last_pages \ {term}
    /\ \A t \in DOMAIN d.last_pages \ {term} : e.last_pages[t] = d.last_pages[t]

\* C29: every step that is a mutation leaves in the file the text of the
\* whole document in memory; mark_term_done changes nothing but
\* completed_terms, set_last_page nothing but the page of its term, set
\* nothing but the entry of its key, and clear leaves the empty document.
C29_WholeDocument ==
    [][ /\ cp_last'.op \in {"mark_term_done", "set_last_page", "set", "clear"}
            => /\ cp_file' = [kind |-> "json", doc |-> cp_data']
               /\ CpLoad(cp_file') = cp_data'
        /\ cp_last'.op = "mark_term_done"
            => /\ cp_data'.last_pages = cp_data.last_pages
               /\ cp_data'.extra = cp_data.extra
               /\ GetCompletedTerms(cp_data')
                      = GetCompletedTerms(cp_data) \cup {cp_last'.term}
        /\ cp_last'.op = "set_last_page"
            => /\ cp_data'.completed_terms = cp_data.completed_terms
               /\ cp_data'.extra = cp_data.extra
               /\ SamePagesBut(cp_data, cp_data', cp_last'.term)
               /\ GetLastPage(cp_data', cp_last'.term) \in CpPages
        /\ cp_last'.op = "set"
            => /\ cp_data'.completed_terms = cp_data.completed_terms
               /\ cp_data'.last_pages = cp_data.last_pages
               /\ cp_last'.term \in DOMAIN cp_data'.extra
        /\ cp_last'.op = "clear"
            => cp_data' = EmptyDoc /\ cp_file'.doc = EmptyDoc ]_vars

\* set_last_page has just returned on a document with a completed term, a
\* page for the other term and an entry set by set(): the file holds it all
C29_Witness ==
    /\ cp_last.op = "set_last_page"
    /\ cp_data.completed_terms # <<>>
    /\ DOMAIN cp_data.last_pages = CpTerms
    /\ DOMAIN cp_data.extra = CpKeys
    /\ cp_file = [kind |-> "json", doc |-> cp_data]

(***************************************************************************)
(* Discovery: scraper.py run_scrape and _scrape_pages                      *)
(* One action per stretch of code between two awaits; an interrupt         *)
(* (cancellation, KeyboardInterrupt) arrives at an await.                  *)
(***************************************************************************)
MaxRuns == 2
\* `if consecutive_failures >= 3`
FailureLimit == 3

\* what client.discover(term, state, page) returns when it succeeds:
\* data.get("projects", []), data.get("has_more", False) and
\* data.get("total_hits", 0); a page past the last one has no projects
Response(src, p) ==
    IF p <= Len(src.pages)
    THEN [projects |-> src.pages[p], has_more |-> src.has_more[p],
          total_hits |-> src.total_hits]
    ELSE [projects |-> <<>>, has_more |-> FALSE, total_hits |-> src.total_hits]

\* mutant of Skips: completed keys are not skipped
SkipsNever(key, done) == FALSE
\* `if key in completed: continue`
Skips(key, done) == key \in done

\* mutant of Propagates: an interrupt is swallowed and the key marked done
PropagatesNever(reason) == FALSE
\* an interrupt propagates out of _scrape_pages and run_scrape; a break or
\* the end of the while loop returns to run_scrape
Propagates(reason) == reason = "interrupted"

\* control leaves _scrape_pages: on a return, run_scrape calls
\* checkpoint.mark_term_done(key) and goes to the next key
Leaves(reason) ==
    /\ how' = [how EXCEPT ![StateKeys[ki]] = reason]
    /\ IF Propagates(reason)
       THEN /\ run_pc' = "interrupted"
            /\ snap' = [taken |-> TRUE, recs |-> LoadAll(file)]
            /\ UNCHANGED <<cp_data, cp_file, ki>>
       ELSE /\ cp_data' = MarkTermDone(cp_data, StateKeys[ki])
            /\ cp_file' = CpSave(cp_data')
            /\ ki' = ki + 1
            /\ run_pc' = "for"
            /\ snap' = snap
    /\ UNCHANGED fetches

\* mutant of WithinPages: the while loop has no last page
WithinPagesAny(p, m) == TRUE
\* `while page <= max_pages`
WithinPages(p, m) == p <= m

\* `while page <= max_pages:` followed by the call of client.discover
LoopHead(p) ==
    IF WithinPages(p, max_pages)
    THEN /\ run_pc' = "discover"
         /\ fetches' = [fetches EXCEPT ![StateKeys[ki]] = @ + 1]
         /\ UNCHANGED <<cp_data, cp_file, ki, how, snap>>
    ELSE Leaves("max_pages")

\* run_scrape up to the for loop: the store and the checkpoint are
\* constructed from their files
RunStart ==
    /\ run_pc \in {"idle", "finished", "interrupted"}
    /\ runs < MaxRuns
    /\ runs' = runs + 1
    /\ seen_ids' = LoadExistingIds(file)
    /\ last' = Fresh
    /\ cp_data' = CpLoad(cp_file)
    /\ completed' = GetCompletedTerms(cp_data')
    /\ ki' = 1
    /\ fetches' = [k \in Keys |-> 0]
    /\ run_pc' = "for"
    /\ UNCHANGED <<file, cp_file, page, consecutive_failures, added, source,
                   page_delay, how, snap, pgh, fetchVars, rlVars, restVars>>

\* the for loop is over: load_all, parse, filter, export
RunFinish ==
    /\ run_pc = "for"
    /\ ki > Len(StateKeys)
    /\ run_pc' = "finished"
    /\ UNCHANGED <<storeVars, cpVars, runs, ki, completed, page, consecutive_failures,
                   added, source, page_delay, fetches, how, snap, pgh, fetchVars,
                   rlVars, restVars>>

SkipCompleted ==
    /\ run_pc = "for"
    /\ ki <= Len(StateKeys)
    /\ Skips(StateKeys[ki], completed)
    /\ ki' = ki + 1
    /\ UNCHANGED <<storeVars, cpVars, run_pc, runs, completed, page,
                   consecutive_failures, added, source, page_delay, fetches, how,
                   snap, pgh, fetchVars, rlVars, restVars>>

\* _scrape_pages is entered: added = 0, page = 1, consecutive_failures = 0
StartPages ==
    /\ run_pc = "for"
    /\ ki <= Len(StateKeys)
    /\ ~Skips(StateKeys[ki], completed)
    /\ added' = 0
    /\ page' = 1
    /\ consecutive_failures' = 0
    /\ pgh' = NoHist
    /\ IF WithinPages(1, max_pages)
       THEN /\ run_pc' = "discover"
            /\ fetches' = [fetches EXCEPT ![StateKeys[ki]] = @ + 1]
            /\ how' = [how EXCEPT ![StateKeys[ki]] = "running"]
            /\ UNCHANGED <<cp_data, cp_file, ki, snap>>
       ELSE Leaves("max_pages")
    /\ UNCHANGED <<storeVars, runs, completed, source, page_delay, fetchVars, rlVars, restVars>>

\* mutant of NextPage: a page is skipped
NextPageSkips(p) == p + 2
\* `page += 1`
NextPage(p) == p + 1

\* mutant of AfterSuccess: a success leaves the failure counter as it is
AfterSuccessKeeps(n) == n
\* `consecutive_failures = 0` once client.discover has returned
AfterSuccess(n) == 0

\* the loop body of _scrape_pages after client.discover returned data
PageReturned ==
    /\ LET data == Response(source[StateKeys[ki]], page)
           res == AddManyResult(seen_ids, file, data.projects)
       IN
        /\ consecutive_failures' = AfterSuccess(consecutive_failures)
        /\ pgh' = [calls |-> Append(pgh.calls, [page |-> page, ok |-> TRUE]),
                   stored |-> IF data.projects = <<>> THEN pgh.stored
                              ELSE Append(pgh.stored, page)]
        /\ IF data.projects = <<>>
           THEN /\ Leaves("empty")
                /\ UNCHANGED <<storeVars, added, page>>
           ELSE /\ file' = res.file
                /\ seen_ids' = res.seen
                /\ last' = Called("add_many", data.projects, "none", res.added)
                /\ added' = added + res.added
                /\ IF ~data.has_more
                   THEN Leaves("no_more") /\ UNCHANGED page
                   ELSE /\ page' = NextPage(page)
                        /\ IF page_delay
                           THEN /\ run_pc' = "sleep_page"
                                /\ UNCHANGED <<cp_data, cp_file, ki, fetches, how, snap>>
                           ELSE LoopHead(NextPage(page))
    /\ UNCHANGED <<runs, completed, source, page_delay, rlVars, restVars>>

\* client.discover returned data
DiscoverReturns ==
    /\ run_pc = "discover"
    /\ PageReturned
    /\ UNCHANGED fetchVars

\* the except branch of _scrape_pages after client.discover raised
\* KickstarterAPIError
PageFailed ==
    /\ consecutive_failures' = consecutive_failures + 1
    /\ pgh' = [pgh EXCEPT !.calls = Append(@, [page |-> page, ok |-> FALSE])]
    /\ IF consecutive_failures' >= FailureLimit
       THEN Leaves("failures")
       ELSE /\ run_pc' = "sleep_fail"
            /\ UNCHANGED <<cp_data, cp_file, ki, fetches, how, snap>>
    /\ UNCHANGED <<storeVars, runs, completed, page, added, source, page_delay,
                   rlVars, restVars>>

\* client.discover raised KickstarterAPIError
DiscoverFails ==
    /\ run_pc = "discover"
    /\ PageFailed
    /\ UNCHANGED fetchVars

\* asyncio.sleep(30) after a failed page is over: `continue`
SleepFailDone ==
    /\ run_pc = "sleep_fail"
    /\ LoopHead(page)
    /\ UNCHANGED <<storeVars, runs, completed, page, consecutive_failures, added,
                   source, page_delay, pgh, fetchVars, rlVars, restVars>>

\* asyncio.sleep(page_delay) after a page is over
SleepPageDone ==
    /\ run_pc = "sleep_page"
    /\ LoopHead(page)
    /\ UNCHANGED <<storeVars, runs, completed, page, consecutive_failures, added,
                   source, page_delay, pgh, fetchVars, rlVars, restVars>>

\* the run is interrupted while it awaits a fetch or a sleep
Interrupt ==
    /\ run_pc \in {"discover", "sleep_fail", "sleep_page"}
    /\ Leaves("interrupted")
    /\ UNCHANGED <<storeVars, runs, completed, page, consecutive_failures, added,
                   source, page_delay, pgh, fetchVars, rlVars, restVars>>

NextScrape ==
    \/ RunStart
    \/ RunFinish
    \/ SkipCompleted
    \/ StartPages
    \/ DiscoverReturns
    \/ DiscoverFails
    \/ SleepFailDone
    \/ SleepPageDone
    \/ Interrupt

\* the pages a key can have: records 1 and 2, then 2 again and 3
SomePages ==
    { <<>>,
      << <<[id |-> 1, body |-> "a"], [id |-> 2, body |-> "a"]>> >>,
      << <<[id |-> 1, body |-> "a"], [id |-> 2, body |-> "a"]>>,
         <<[id |-> 1, body |-> "b"], [id |-> 3, body |-> "a"]>> >>,
      << <<[id |-> 1, body |-> "a"]>>, <<[id |-> 2, body |-> "a"]>>,
         <<[id |-> 3, body |-> "a"]>> >> }
LatePages ==
    { <<>>, << <<[id |-> 3, body |-> "a"], [id |-> None, body |-> "a"]>> >> }
\* the number of items on the pages from page p on
RECURSIVE ItemsFrom(_, _)
ItemsFrom(ps, p) == IF p > Len(ps) THEN 0 ELSE Len(ps[p]) + ItemsFrom(ps, p + 1)
SourcesOf(pageSet) ==
    UNION { { [pages |-> ps, has_more |-> hm, total_hits |-> ItemsFrom(ps, 1)]
              : hm \in [1..Len(ps) -> BOOLEAN] }
            : ps \in pageSet }

InitScrape ==
    /\ IdleStore /\ IdleCp /\ IdleRun /\ IdleFetch /\ IdleRl /\ IdleRest
    /\ source \in { [k \in Keys |-> IF k = StateKeys[1] THEN a ELSE b]
                    : a \in SourcesOf(SomePages), b \in SourcesOf(LatePages) }
    /\ page_delay \in BOOLEAN

SpecScrape == InitScrape /\ [][NextScrape]_vars

\* the end-to-end scenario: "AI|live" has two pages of 20 and 5 items
LiveRecs == [i \in 1..25 |-> [id |-> i, body |-> "a"]]
LivePages == <<SubSeq(LiveRecs, 1, 20), SubSeq(LiveRecs, 21, 25)>>
InitE2E ==
    /\ IdleStore /\ IdleCp /\ IdleRun /\ IdleFetch /\ IdleRl /\ IdleRest
    /\ source \in { [k \in Keys |-> IF k = StateKeys[1] THEN a ELSE b]
                    : a \in { [pages |-> LivePages, has_more |-> <<TRUE, hm>>,
                                 total_hits |-> Len(LiveRecs)]
                              : hm \in BOOLEAN },
                      b \in SourcesOf(LatePages) }
    /\ page_delay \in BOOLEAN

SpecE2E == InitE2E /\ [][NextScrape]_vars

(***************************************************************************)
(* Claims about discovery                                                  *)
(***************************************************************************)
NoDupIds(recs) ==
    \A i, j \in 1..Len(recs) : (i # j /\ recs[i].id # None) => recs[i].id # recs[j].id

\* C3: when a run that follows an interrupted run has finished, the log still
\* holds every record it held at the interrupt and no id is on two lines.
C3_RestartKeepsLog ==
    (run_pc = "finished" /\ snap.taken) =>
        /\ \A i \in 1..Len(snap.recs) : Contains(LoadAll(file), snap.recs[i])
        /\ NoDupIds(LoadAll(file))

\* a run interrupted after it stored records, then a finished run that re-fetched
\* them and stored more
C3_Witness ==
    /\ run_pc = "finished" /\ snap.taken /\ runs = 2
    /\ Len(snap.recs) >= 1
    /\ Len(LoadAll(file)) > Len(snap.recs)
    /\ fetches[StateKeys[1]] >= 2

\* C4: a key whose pagination was aborted by 3 consecutive failures is not in
\* the checkpoint's completed set.
C4_FailuresNotMarked ==
    \A k \in Keys : how[k] = "failures" => k \notin GetCompletedTerms(CpLoad(cp_file))

\* C5 as claimed: a key is in the completed set only if its pagination
\* consumed all pages or reached the failure threshold.
C5_DoneOnlyIfConsumed ==
    \A k \in Keys :
        k \in GetCompletedTerms(CpLoad(cp_file)) => how[k] \in {"empty", "no_more", "failures"}

\* C5 amended: a key is in the completed set only if its pagination returned:
\* all pages consumed, the failure threshold reached, or max_pages reached; an
\* interrupted pagination never leads to the key being marked done.
C5_DoneOnlyIfReturned ==
    \A k \in Keys :
        k \in GetCompletedTerms(CpLoad(cp_file))
            => how[k] \in {"empty", "no_more", "failures", "max_pages"}

\* a key marked done after pagination stopped at max_pages with more signalled
C5_Witness ==
    \E k \in Keys :
        /\ k \in GetCompletedTerms(CpLoad(cp_file))
        /\ how[k] = "max_pages"
        /\ Response(source[k], MaxPages).has_more

\* the number of failed discover calls at the end of calls, since the last
\* success
RECURSIVE FailStreak(_)
FailStreak(calls) ==
    IF calls = <<>> \/ calls[Len(calls)].ok THEN 0
    ELSE 1 + FailStreak(SubSeq(calls, 1, Len(calls) - 1))

\* the key the for loop is at is left in this step because of failures
AbortedForFailures ==
    /\ ki <= Len(StateKeys)
    /\ how' # how /\ how'[StateKeys[ki]] = "failures"

\* C36: the pagination of a key is aborted for failures exactly when the
\* third discover call in a row has failed for the key: the counter is the
\* number of failures since the last success of the key (zero when the key
\* starts), and while the key is paginated fewer than three calls in a row
\* have failed.
C36_ThreeInARow ==
    [][ /\ consecutive_failures' = FailStreak(pgh'.calls)
        /\ AbortedForFailures <=> (pgh' # pgh /\ FailStreak(pgh'.calls) = 3)
        /\ run_pc' \in {"discover", "sleep_fail", "sleep_page"}
             => FailStreak(pgh'.calls) < 3
      ]_vars

\* three discover calls of a key have failed, two of them before a success,
\* and the key is still paginated
C36_Witness ==
    /\ run_pc = "sleep_fail" /\ consecutive_failures = 1
    /\ Len(pgh.calls) = 4
    /\ ~pgh.calls[1].ok /\ ~pgh.calls[2].ok /\ pgh.calls[3].ok /\ ~pgh.calls[4].ok

\* every discover call returns or raises and every sleep ends
SpecScrapeLive ==
    /\ SpecScrape
    /\ WF_vars(DiscoverReturns \/ DiscoverFails)
    /\ WF_vars(SleepFailDone)
    /\ WF_vars(SleepPageDone)

\* control is inside _scrape_pages
Paginating == run_pc \in {"discover", "sleep_fail", "sleep_page"}

\* the pages requested so far by the current _scrape_pages call are within
\* 1..max_pages, and it has made at most 3 * max_pages discover calls
CallsBounded ==
    /\ run_pc = "discover" => page \in 1..max_pages
    /\ \A i \in 1..Len(pgh.calls) : pgh.calls[i].page \in 1..max_pages
    /\ Len(pgh.calls) + (IF run_pc = "discover" THEN 1 ELSE 0) <= 3 * max_pages

\* C38: _scrape_pages never requests a page above max_pages, issues at most
\* 3 * max_pages discover calls, and once entered it is left again.
C38_Terminates ==
    /\ []CallsBounded
    /\ Paginating ~> ~Paginating

\* both pages of a key were fetched at the third call each, and the loop ended
\* at max_pages with more pages signalled
C38_Witness ==
    /\ run_pc = "for" /\ ki = 2 /\ how[StateKeys[1]] = "max_pages"
    /\ Len(pgh.calls) = 3 * max_pages
    /\ pgh.stored = <<1, 2>>

\* the page number changes inside a _scrape_pages call
PageMoves == page' # page /\ pgh' # NoHist

\* C39: inside _scrape_pages the page number moves only by one, and only in
\* the step in which the page was returned with items and has_more and was
\* passed to the store; a failed call leaves the page number, and the page
\* requested next is the same; the pages passed to the store so far are
\* 1..k in this order, each once.
C39_PagesInOrder ==
    [][ /\ PageMoves =>
              /\ page' = page + 1
              /\ pgh'.calls = Append(pgh.calls, [page |-> page, ok |-> TRUE])
              /\ pgh'.stored = Append(pgh.stored, page)
              /\ Response(source[StateKeys[ki]], page).has_more
        /\ (run_pc = "discover" /\ pgh'.calls = Append(pgh.calls, [page |-> page, ok |-> FALSE]))
              => page' = page /\ run_pc' \in {"sleep_fail", "for"}
        /\ (run_pc = "sleep_fail" /\ run_pc' = "discover") => page' = page
        /\ \A i \in 1..Len(pgh'.stored) : pgh'.stored[i] = i
        /\ Len(pgh'.stored) \in {page' - 1, page'}
      ]_vars

\* page 1 was stored, page 2 failed once and was then stored
C39_Witness ==
    /\ pgh.stored = <<1, 2>>
    /\ Len(pgh.calls) = 3
    /\ pgh.calls[2] = [page |-> 2, ok |-> FALSE]
    /\ pgh.calls[3] = [page |-> 2, ok |-> TRUE]

\* the pagination of "AI|live" was served both pages
TwoPagesReturned ==
    \/ how[StateKeys[1]] \in {"no_more", "empty"}
    \/ how[StateKeys[1]] = "max_pages" /\ MaxPages >= Len(LivePages)

ScenarioMaxPages == 5
HitRecs == [i \in 1..45 |-> [id |-> i, body |-> "a"]]
HitPages == <<SubSeq(HitRecs, 1, 20), SubSeq(HitRecs, 21, 40), SubSeq(HitRecs, 41, 45)>>
\* the search discover_all_pages is called with
AllKey == StateKeys[1]
offAll == <<storeVars, cpVars, cpHist, scrapeVars, fetchVars, rlVars, max_pages, dt,
           lateVars>>

\* `while page <= max_pages:` followed by the call of self.discover
AllLoopHead(p) ==
    IF p <= max_pages
    THEN all_pc' = "discover" /\ all_fetches' = all_fetches + 1
    ELSE all_pc' = "returned" /\ all_fetches' = all_fetches

\* discover_all_pages is called: all_projects = [], page = 1
AllStart ==
    /\ all_pc \in {"idle", "returned"}
    /\ all_projects' = <<>>
    /\ all_page' = 1
    /\ IF 1 <= max_pages
       THEN all_pc' = "discover" /\ all_fetches' = 1
       ELSE all_pc' = "returned" /\ all_fetches' = 0
    /\ UNCHANGED offAll

\* self.discover returned data
AllDiscoverReturns ==
    /\ all_pc = "discover"
    /\ LET data == Response(source[AllKey], all_page) IN
        IF data.projects = <<>>
        THEN /\ all_pc' = "returned"
             /\ UNCHANGED <<all_page, all_projects, all_fetches>>
        ELSE /\ all_projects' = all_projects \o data.projects
             /\ IF Len(all_projects') >= data.total_hits
                THEN /\ all_pc' = "returned"
                     /\ UNCHANGED <<all_page, all_fetches>>
                ELSE /\ all_page' = all_page + 1
                     /\ IF page_delay
                        THEN all_pc' = "sleep" /\ all_fetches' = all_fetches
                        ELSE AllLoopHead(all_page + 1)
    /\ UNCHANGED offAll

\* asyncio.sleep(page_delay) is over
AllSleepDone ==
    /\ all_pc = "sleep"
    /\ AllLoopHead(all_page)
    /\ UNCHANGED <<all_page, all_projects, offAll>>

\* the source of the scenario serves every request; it may or may not send
\* has_more, and may send it on every page
InitPaginate ==
    /\ IdleStore /\ IdleCp /\ IdleCpHist /\ IdleRun /\ IdleFetch /\ IdleRl /\ IdleAll
    /\ IdleDetail /\ IdleLate
    /\ max_pages = ScenarioMaxPages
    /\ source \in { [k \in Keys |-> IF k = StateKeys[1] THEN a ELSE NoSource]
                    : a \in { [pages |-> HitPages, has_more |-> hm,
                               total_hits |-> Len(HitRecs)]
                             : hm \in [1..Len(HitPages) -> BOOLEAN] } }
    /\ page_delay \in BOOLEAN

NextPaginate ==
    \/ RunStart
    \/ RunFinish
    \/ SkipCompleted
    \/ StartPages
    \/ DiscoverReturns
    \/ SleepPageDone
    \/ Interrupt
    \/ AllStart
    \/ AllDiscoverReturns
    \/ AllSleepDone

SpecPaginate == InitPaginate /\ [][NextPaginate]_vars

\* the pagination of the scenario's key returned to run_scrape in this run
ScenarioReturned ==
    /\ fetches[StateKeys[1]] > 0
    /\ how[StateKeys[1]] \in {"empty", "no_more", "max_pages"}

\* C15: on the source with total_hits = 45 and pages of 20, _scrape_pages
\* issues at most 3 fetches, and when it has returned it has issued exactly 3
\* and the 45 items are in the store.
C15_ThreeFetches ==
    /\ fetches[StateKeys[1]] <= Len(HitPages)
    /\ ScenarioReturned =>
          /\ fetches[StateKeys[1]] = Len(HitPages)
          /\ LoadAll(file) = HitRecs

\* the items of the pages before page p
RunningTotal(src, p) == ItemsFrom(src.pages, 1) - ItemsFrom(src.pages, p)
\* the four stop conditions, evaluated on the page fetched before page p
MayFetch(src, p) ==
    p > 1 =>
        /\ Response(src, p - 1).projects # <<>>
        /\ Response(src, p - 1).has_more
        /\ RunningTotal(src, p) < Response(src, p - 1).total_hits
        /\ p <= max_pages

\* C16: a paginator fetches a further page only if the page before it was
\* not empty, signalled more, left the running total below total_hits, and
\* max_pages is not exceeded; this for _scrape_pages and discover_all_pages.
C16_StopConditions ==
    /\ run_pc = "discover" => MayFetch(source[StateKeys[ki]], page)
    /\ all_pc = "discover" => MayFetch(source[AllKey], all_page)

(***************************************************************************)
(* api/client.py: KickstarterClient._request_json                          *)
(***************************************************************************)
\* the largest max_retries tried (3 is the code's default)
MaxRetries == 3

\* what one _curl_get_async call can give: a response (status, whether the
\* body parses as JSON) or a transport exception
Resp(status, parses) == [kind |-> "resp", status |-> status, parses |-> parses]
Raised == [kind |-> "exc", status |-> 0, parses |-> FALSE]
Outcomes ==
    { Resp(200, TRUE), Resp(200, FALSE), Resp(403, FALSE), Resp(500, FALSE),
      Resp(503, FALSE), Resp(404, FALSE), Resp(302, FALSE), Raised }

Ok == [kind |-> "ok", status |-> 200, why |-> "body"]
\* KickstarterAPIError(status_code, message)
ApiError(status, why) == [kind |-> "error", status |-> status, why |-> why]

\* mutant of InRange: one attempt too many
InRangeInclusive(a, m) == a <= m
\* `for attempt in range(self._max_retries)`
InRange(a, m) == a < m

\* mutant of WaitAfter: the wait after an exception does not grow
WaitAfterFlat(o, a, m) ==
    IF o.kind = "exc" THEN (IF a = m - 1 THEN 0 ELSE 1)
    ELSE IF o.status = 200 THEN (IF o.parses THEN 0 ELSE 5)
    ELSE 15
\* the backoff before the next attempt; 0 when the attempt ends the fetch
WaitAfter(o, a, m) ==
    IF o.kind = "exc" THEN (IF a = m - 1 THEN 0 ELSE 2 ^ a)
    ELSE IF o.status = 200 THEN (IF o.parses THEN 0 ELSE 5)
    ELSE IF o.status = 403 THEN 15 * (a + 1)
    ELSE IF o.status >= 500 THEN 2 ^ a
    ELSE 0

\* mutant of Ends: an exception ends the fetch at any attempt
EndsOnAnyException(o, a, m) ==
    IF o.kind = "exc" THEN TRUE
    ELSE IF o.status = 200 THEN o.parses
    ELSE ~(o.status = 403 \/ o.status >= 500)
\* mutant of Ends: every status but 200 is retried
EndsOnSuccessOnly(o, a, m) ==
    IF o.kind = "exc" THEN a = m - 1 ELSE o.status = 200 /\ o.parses
\* mutant of Ends: a 200 ends the fetch whether or not its body parses
EndsOnAny200(o, a, m) ==
    IF o.kind = "exc" THEN a = m - 1
    ELSE IF o.status = 200 THEN TRUE
    ELSE ~(o.status = 403 \/ o.status >= 500)
\* whether the attempt ends the fetch, and with what
Ends(o, a, m) ==
    IF o.kind = "exc" THEN a = m - 1
    ELSE IF o.status = 200 THEN o.parses
    ELSE ~(o.status = 403 \/ o.status >= 500)
Outcome(o) ==
    IF o.kind = "exc" THEN ApiError(0, "transport")
    ELSE IF o.status = 200 THEN Ok
    ELSE ApiError(o.status, "status")

\* the top of the for loop: the next attempt, or
\* `raise KickstarterAPIError(403, "Max retries exceeded")`
ForAttempt(a) ==
    /\ attempt' = a
    /\ IF InRange(a, max_retries)
       THEN f_pc' = "http" /\ result' = result
       ELSE f_pc' = "done" /\ result' = ApiError(403, "max_retries")

\* _request_json is called
FetchStart ==
    /\ f_pc \in {"idle", "done"}
    /\ f_pc' = "acquire"
    /\ attempt' = 0
    /\ trace' = <<>>
    /\ grants' = 0
    /\ result' = NoResult
    /\ UNCHANGED <<max_retries, storeVars, cpVars, scrapeVars, rlVars, restVars>>

\* `await self._rate_limiter.acquire()` returned
Acquired ==
    /\ f_pc = "acquire"
    /\ grants' = grants + 1
    /\ ForAttempt(0)
    /\ UNCHANGED <<max_retries, trace, storeVars, cpVars, scrapeVars, rlVars, restVars>>

\* `await self._curl_get_async(url)` returned or raised
HttpDone(o) ==
    /\ f_pc = "http"
    /\ trace' = Append(trace, [out |-> o, wait |-> WaitAfter(o, attempt, max_retries)])
    /\ IF Ends(o, attempt, max_retries)
       THEN f_pc' = "done" /\ result' = Outcome(o)
       ELSE f_pc' = "sleep" /\ result' = result
    /\ UNCHANGED <<attempt, max_retries, grants, storeVars, cpVars, scrapeVars, rlVars, restVars>>

\* the backoff sleep is over: `continue`
BackoffDone ==
    /\ f_pc = "sleep"
    /\ ForAttempt(attempt + 1)
    /\ UNCHANGED <<max_retries, trace, grants, storeVars, cpVars, scrapeVars, rlVars, restVars>>

NextFetch ==
    \/ FetchStart
    \/ Acquired
    \/ \E o \in Outcomes : HttpDone(o)
    \/ BackoffDone

InitFetch ==
    /\ IdleStore /\ IdleCp /\ IdleScrape /\ IdleRl /\ IdleRest
    /\ f_pc = "idle" /\ attempt = 0 /\ trace = <<>> /\ grants = 0 /\ result = NoResult
    /\ max_retries \in 1..MaxRetries

SpecFetch == InitFetch /\ [][NextFetch]_vars

\* every response of the fetch so far was HTTP 403
AllBlocked ==
    \A i \in 1..Len(trace) : trace[i].out.kind = "resp" /\ trace[i].out.status = 403

\* C7: a JSON fetch whose every response is HTTP 403 makes exactly max_retries
\* attempts and then fails with the blocked error; it never succeeds and never
\* makes more than max_retries attempts.
C7_RetryCeiling ==
    (f_pc # "idle" /\ AllBlocked) =>
        /\ result.kind # "ok"
        /\ Len(trace) <= max_retries
        /\ f_pc = "done" => /\ Len(trace) = max_retries
                            /\ result = ApiError(403, "max_retries")

\* a fetch of three attempts, all of them 403, has failed
C7_Witness ==
    /\ f_pc = "done" /\ AllBlocked
    /\ max_retries = 3 /\ Len(trace) = 3
    /\ result = ApiError(403, "max_retries")

\* C8: every HTTP attempt of a fetch, retries included, is preceded by its own
\* rate-limiter grant: grants consumed = HTTP attempts made.
C8_GrantPerAttempt ==
    /\ f_pc = "http" => grants = Len(trace) + 1
    /\ f_pc = "done" => grants = Len(trace)

\* C17: a fetch that used up its max_retries attempts fails with the blocked
\* error, and the status of that error is the status of the last response.
C17_LastStatus ==
    (f_pc = "done" /\ result.why = "max_retries") =>
        /\ result.kind = "error"
        /\ Len(trace) = max_retries
        /\ result.status = trace[Len(trace)].out.status

\* C26: an attempt that raised a transport exception is followed by a wait of
\* 2^attempt and a further attempt, unless it was attempt max_retries - 1:
\* then the fetch has failed with the error that carries the cause (status
\* 0), not with the blocked error.
C26_TransportRetry ==
    \A i \in 1..Len(trace) :
        trace[i].out.kind = "exc"
          => IF i - 1 = max_retries - 1
             THEN /\ f_pc = "done" /\ Len(trace) = i
                  /\ result = ApiError(0, "transport")
             ELSE /\ trace[i].wait = 2 ^ (i - 1)
                  /\ Len(trace) = i => f_pc \in {"sleep", "http"} /\ result = NoResult

\* three attempts, each with a transport exception: waits of 1 and 2
\* seconds, then the wrapping error
C26_Witness ==
    /\ f_pc = "done" /\ max_retries = 3
    /\ \A i \in 1..3 : trace[i].out.kind = "exc"
    /\ trace[1].wait = 1 /\ trace[2].wait = 2
    /\ result = ApiError(0, "transport")

\* every response of the fetch so far was a 200 whose body does not parse
AllMalformed ==
    \A i \in 1..Len(trace) :
        trace[i].out.kind = "resp" /\ trace[i].out.status = 200 /\ ~trace[i].out.parses

\* C27: a fetch whose every response is a 200 with an unparseable body waits
\* 5 seconds after each, makes max_retries attempts and then fails with the
\* blocked error; it never succeeds and raises nothing else.
C27_MalformedRetried ==
    (f_pc # "idle" /\ AllMalformed) =>
        /\ \A i \in 1..Len(trace) : trace[i].wait = 5
        /\ Len(trace) <= max_retries
        /\ result.kind # "ok"
        /\ f_pc = "done" => /\ Len(trace) = max_retries
                            /\ result = ApiError(403, "max_retries")

\* three attempts, each a 200 with a malformed body: the blocked error
C27_Witness ==
    /\ f_pc = "done" /\ AllMalformed
    /\ max_retries = 3 /\ Len(trace) = 3
    /\ result = ApiError(403, "max_retries")

\* a 200 whose body parses
Parseable(o) == o.kind = "resp" /\ o.status = 200 /\ o.parses
\* a status that is neither 200 nor retried
NonRetryable(o) ==
    o.kind = "resp" /\ o.status # 200 /\ o.status # 403 /\ o.status < 500

\* C37: a finished fetch has made between one and max_retries attempts; it
\* returned the parsed body exactly when an attempt gave a parseable 200 with
\* no non-retryable status before it, and that attempt was its last and the
\* first of its kind; a fetch that raised met a non-retryable status or used
\* up its attempts.
C37_AttemptsAndResult ==
    f_pc = "done" =>
        LET n == Len(trace) IN
        /\ n \in 1..max_retries
        /\ result = Ok <=>
              \E i \in 1..n : /\ Parseable(trace[i].out)
                              /\ \A j \in 1..(i - 1) : ~NonRetryable(trace[j].out)
        /\ result = Ok =>
              /\ Parseable(trace[n].out)
              /\ \A j \in 1..(n - 1) : ~Parseable(trace[j].out)
        /\ result # Ok =>
              \/ NonRetryable(trace[n].out)
              \/ n = max_retries /\ ~Parseable(trace[n].out)

\* a 403, a 200 that does not parse and then a 200 that does: the third and
\* last attempt returns the body
C37_Witness ==
    /\ f_pc = "done" /\ max_retries = 3 /\ Len(trace) = 3
    /\ trace[1].out = Resp(403, FALSE)
    /\ trace[2].out = Resp(200, FALSE)
    /\ trace[3].out = Resp(200, TRUE)
    /\ result = Ok

(***************************************************************************)
(* run_scrape with its fetches: client.discover is _request_json, and what *)
(* the fetch returns or raises is what _scrape_pages sees                  *)
(***************************************************************************)
\* client.discover(term, state, page) calls self._request_json(url)
DiscoverCalls ==
    /\ run_pc = "discover"
    /\ f_pc = "idle"
    /\ FetchStart

\* _request_json returned the parsed body
FetchReturns ==
    /\ run_pc = "discover"
    /\ f_pc = "done" /\ result.kind = "ok"
    /\ PageReturned
    /\ f_pc' = "idle"
    /\ UNCHANGED <<attempt, max_retries, trace, grants, result>>

\* _request_json raised KickstarterAPIError
FetchRaises ==
    /\ run_pc = "discover"
    /\ f_pc = "done" /\ result.kind = "error"
    /\ PageFailed
    /\ f_pc' = "idle"
    /\ UNCHANGED <<attempt, max_retries, trace, grants, result>>

\* a search of two pages with one project each
TwoPages ==
    [pages |-> << <<[id |-> 1, body |-> "a"]>>, <<[id |-> 2, body |-> "a"]>> >>,
     has_more |-> <<TRUE, FALSE>>, total_hits |-> 2]

InitDiscoverFetch ==
    /\ IdleStore /\ IdleCp /\ IdleRun /\ IdleRl /\ IdleRest
    /\ source = [k \in Keys |-> IF k = StateKeys[1] THEN TwoPages ELSE NoSource]
    /\ page_delay = TRUE
    /\ f_pc = "idle" /\ attempt = 0 /\ trace = <<>> /\ grants = 0 /\ result = NoResult
    /\ max_retries \in 1..MaxRetries

NextDiscoverFetch ==
    \/ RunStart
    \/ RunFinish
    \/ SkipCompleted
    \/ StartPages
    \/ DiscoverCalls
    \/ Acquired
    \/ \E o \in Outcomes : HttpDone(o)
    \/ BackoffDone
    \/ FetchReturns
    \/ FetchRaises
    \/ SleepFailDone
    \/ SleepPageDone

SpecDiscoverFetch == InitDiscoverFetch /\ [][NextDiscoverFetch]_vars

\* a response with a status >= 400 that is neither 403 nor >= 500
ClientError(o) ==
    o.kind = "resp" /\ o.status >= 400 /\ o.status # 403 /\ o.status < 500
\* the fetch has raised the error of a client-error response
RaisedClientError ==
    /\ f_pc = "done"
    /\ trace # <<>> /\ ClientError(trace[Len(trace)].out)

\* C18: a response with a status >= 400 other than 403 and 5xx is the last
\* attempt of its fetch, no wait follows it, and the fetch raises the error
\* with that status; in _scrape_pages the error ends the page attempt and not
\* the run: nothing is stored, and either the same page is requested again
\* after the pause or, as the third failure in a row, the run goes on with
\* the next key.
C18_ClientErrorIsFinal ==
    [][/\ \A i \in 1..Len(trace') :
            ClientError(trace'[i].out) =>
                /\ i = Len(trace')
                /\ trace'[i].wait = 0
                /\ f_pc' \in {"done", "idle"}
                /\ result' = ApiError(trace'[i].out.status, "status")
       /\ (RaisedClientError /\ f_pc' = "idle") =>
            /\ file' = file /\ seen_ids' = seen_ids
            /\ page' = page
            /\ run_pc' \in {"sleep_fail", "for"}
            /\ run_pc' = "sleep_fail" <=> consecutive_failures' < FailureLimit
            /\ run_pc' = "for" => ki' = ki + 1
    ]_vars

\* a 404 on the first of three attempts: the fetch raised at once, and
\* _scrape_pages pauses before it requests the same page again
C18_Witness ==
    /\ max_retries = 3 /\ Len(trace) = 1
    /\ ClientError(trace[1].out)
    /\ result = ApiError(404, "status")
    /\ f_pc = "idle" /\ run_pc = "sleep_fail"
    /\ page = 2 /\ consecutive_failures = 1

(***************************************************************************)
(* detail_scraper.py: run_detail_scrape and _get_session_and_csrf          *)
(* file and seen_ids are the detail store (project_details.jsonl).         *)
(***************************************************************************)
\* `retries: int = 3` of _get_session_and_csrf
SessionRetries == 3
\* `if consecutive_fails >= 2`
RefreshAfter == 2
\* csrf_refresh_interval (50 in the code), scaled down
CsrfRefreshInterval == 2
\* the most runs of run_detail_scrape followed
DetailRuns == 3
\* `if consecutive_fails >= 10`, scaled down
PauseAfter == 3
\* the runs in which rows with an unusable name are followed
RaiseRuns == 1
\* the rows of the CSV, by slug
Rows == <<1, 2, 3, 4>>
\* the detail record of a row: its id and slug, and the fetched fields
DetailOf(slug) == [id |-> slug, body |-> "detail"]
\* {r.get("slug") for r in detail_store.load_all()}
SlugsOf(recs) == { recs[i].id : i \in 1..Len(recs) }
offDetail == <<last, cpVars, cpHist, scrapeVars, fetchVars, rlVars, pgVars, lateVars>>

\* mutant of SessionBackoff: the wait does not grow
SessionBackoffFlat(a) == 30
\* `backoff = 30 * (2 ** attempt)`
SessionBackoff(a) == 30 * (2 ^ a)

\* mutant of FirstUnscraped: no row is skipped
FirstUnscrapedAny(i, scraped) == i
\* the for loop from row i on: `if slug in already_scraped: continue`
RECURSIVE FirstUnscraped(_, _)
FirstUnscraped(i, scraped) ==
    IF i > Len(Rows) \/ Rows[i] \notin scraped THEN i ELSE FirstUnscraped(i + 1, scraped)

\* _fetch_project_graphql(session, csrf, slug) is called: the POST is sent
\* with the X-CSRF-Token header set to csrf
SendGraphql(d, pc) ==
    [d EXCEPT !.pc = pc, !.sent = @ + 1, !.sent_empty = @ \/ d.csrf = "",
              !.tried = @ \cup {Rows[d.i]}]

\* _get_session_and_csrf(project_url) is called
StartSession(d, why) ==
    [d EXCEPT !.pc = "session", !.est_for = why, !.attempt = 0, !.fetches = 0,
              !.waits = <<>>,
              !.periodic = IF why = "periodic" THEN @ + 1 ELSE @]

\* the for loop goes on to the first row from i on that is not scraped yet,
\* or ends
EnterRow(d, i) ==
    LET j == FirstUnscraped(i, d.already_scraped)
        d1 == [d EXCEPT !.i = j]
    IN  IF j > Len(Rows) THEN [d1 EXCEPT !.pc = "done", !.how = "finished"]
        ELSE [d1 EXCEPT !.pc = "row"]

\* the loop body up to the fetch: the periodic refresh if it is due, then
\* the GraphQL fetch
RowBegin(d) ==
    IF d.success > 0 /\ d.success % CsrfRefreshInterval = 0
    THEN StartSession(d, "periodic")
    ELSE SendGraphql(d, "gql")

\* mutant of AfterFailure: the record is built whether or not data came
AfterFailureBuilds(d) == [d EXCEPT !.pc = "build"]
\* `if project_data is None:` time.sleep(page_delay) and continue, else on to
\* the record
AfterFailure(d) ==
    IF d.project_data THEN [d EXCEPT !.pc = "build"] ELSE [d EXCEPT !.pc = "sleep_fail"]

\* `if consecutive_fails >= 10:` pause and refresh
CheckPause(d) ==
    IF d.consecutive_fails >= PauseAfter THEN StartSession(d, "after10")
    ELSE AfterFailure(d)

\* `session, csrf = _get_session_and_csrf(...)` returned tok: what the caller
\* does next; only the call before the loop checks the token
SessionReturned(d, tok) ==
    LET d1 == [d EXCEPT !.csrf = tok,
                        !.refresh_failed = @ \/ (tok = "" /\ d.est_for # "init")]
    IN  IF d.est_for = "init"
        THEN (IF tok = "" THEN [d1 EXCEPT !.pc = "aborted", !.how = "aborted"]
              ELSE EnterRow(d1, 1))
        ELSE IF d.est_for = "periodic" THEN SendGraphql(d1, "gql")
        ELSE IF d.est_for = "after2" THEN SendGraphql(d1, "gql_retry")
        ELSE AfterFailure([d1 EXCEPT !.consecutive_fails = 0, !.streak = 0])

\* run_detail_scrape up to the loop: the detail store is constructed, and
\* the first session is asked for unless every row is scraped already
DetailStart ==
    /\ dt.pc \in {"idle", "done", "aborted", "interrupted"}
    /\ dt.runs < DetailRuns
    /\ seen_ids' = LoadExistingIds(file)
    /\ LET d0 == [NoDetail EXCEPT !.runs = dt.runs + 1,
                                  !.hows = IF dt.runs = 0 THEN <<>>
                                           ELSE Append(dt.hows, dt.how),
                                  !.already_scraped = SlugsOf(LoadAll(file)),
                                  !.prev = dt.tried \ SlugsOf(LoadAll(file))]
       IN  dt' = IF FirstUnscraped(1, d0.already_scraped) > Len(Rows)
                 THEN [d0 EXCEPT !.pc = "done", !.how = "nothing_to_do"]
                 ELSE StartSession(d0, "init")
    /\ UNCHANGED <<file, offDetail>>

\* one pass of the for loop of _get_session_and_csrf: session.get returned a
\* page with a token, a page without one, or raised
SessionGet(o) ==
    /\ dt.pc = "session"
    /\ LET d1 == [dt EXCEPT !.fetches = @ + 1] IN
        dt' = IF o = "token" THEN SessionReturned(d1, "token")
              ELSE [d1 EXCEPT !.pc = "session_wait",
                              !.waits = Append(@, SessionBackoff(dt.attempt))]
    /\ UNCHANGED <<file, seen_ids, offDetail>>

\* time.sleep(backoff) is over: the next attempt, or `return session, ""`
SessionWaitDone ==
    /\ dt.pc = "session_wait"
    /\ LET d1 == [dt EXCEPT !.attempt = @ + 1] IN
        dt' = IF d1.attempt < SessionRetries THEN [d1 EXCEPT !.pc = "session"]
              ELSE SessionReturned(d1, "")
    /\ UNCHANGED <<file, seen_ids, offDetail>>

\* the first _fetch_project_graphql of a row returned the project or None
GraphqlDone(ok) ==
    /\ dt.pc = "gql"
    /\ dt' = IF ok THEN [dt EXCEPT !.pc = "build", !.project_data = TRUE, !.streak = 0]
             ELSE LET d1 == [dt EXCEPT !.project_data = FALSE, !.failed = @ + 1,
                                       !.consecutive_fails = @ + 1,
                                       !.streak = @ + 1]
                  IN  IF d1.consecutive_fails >= RefreshAfter
                      THEN StartSession(d1, "after2")
                      ELSE CheckPause(d1)
    /\ UNCHANGED <<file, seen_ids, offDetail>>

\* the retry after the refresh returned the project or None
RetryDone(ok) ==
    /\ dt.pc = "gql_retry"
    /\ dt' = CheckPause([dt EXCEPT !.project_data = ok,
                                   !.streak = IF ok THEN 0 ELSE @])
    /\ UNCHANGED <<file, seen_ids, offDetail>>

\* the record is built and stored: consecutive_fails = 0,
\* detail_store.add(detail), already_scraped.add(slug), success += 1
RecordStored ==
    /\ dt.pc = "build"
    /\ LET r == DetailOf(Rows[dt.i]) IN
        /\ IF AddAccepts(seen_ids, r)
           THEN file' = AddFile(file, r) /\ seen_ids' = AddSeen(seen_ids, r)
           ELSE UNCHANGED <<file, seen_ids>>
        /\ dt' = [dt EXCEPT !.pc = "sleep_row", !.consecutive_fails = 0,
                            !.already_scraped = @ \cup {Rows[dt.i]},
                            !.success = @ + 1, !.periodic = 0]
    /\ UNCHANGED offDetail

\* building the record raised an Exception, before (early) or after
\* `consecutive_fails = 0`: `except Exception:` failed += 1, nothing is stored
BuildFails(early) ==
    /\ dt.pc = "build"
    /\ dt' = [dt EXCEPT !.pc = "sleep_row", !.failed = @ + 1,
                        !.consecutive_fails = IF early THEN @ ELSE 0]
    /\ UNCHANGED <<file, seen_ids, offDetail>>

\* the loop body is entered for the row and reaches its fetch
RowFetch ==
    /\ dt.pc = "row"
    /\ dt' = RowBegin(dt)
    /\ UNCHANGED <<file, seen_ids, offDetail>>

\* the first try block raised an Exception before the fetch (row["name"] is
\* not a string): `except Exception:` failed += 1, consecutive_fails += 1
RowRaises ==
    /\ dt.pc = "row" /\ dt.runs <= RaiseRuns
    /\ dt' = [dt EXCEPT !.pc = "sleep_exc", !.failed = @ + 1,
                        !.consecutive_fails = @ + 1,
                        !.tried = @ \cup {Rows[dt.i]}]
    /\ UNCHANGED <<file, seen_ids, offDetail>>

\* time.sleep(page_delay) after a failed fetch, or in the handler of the
\* unexpected error, is over: `continue`
FailSleepDone ==
    /\ dt.pc \in {"sleep_fail", "sleep_exc"}
    /\ dt' = EnterRow(dt, dt.i + 1)
    /\ UNCHANGED <<file, seen_ids, offDetail>>

\* time.sleep(page_delay) at the end of the loop body is over
RowSleepDone ==
    /\ dt.pc = "sleep_row"
    /\ dt' = EnterRow(dt, dt.i + 1)
    /\ UNCHANGED <<file, seen_ids, offDetail>>

\* the places where run_detail_scrape blocks in a fetch or a sleep
Blocking == {"session", "session_wait", "gql", "gql_retry", "build",
             "sleep_fail", "sleep_exc", "sleep_row"}

\* a KeyboardInterrupt raised at pc is inside one of the two try blocks of the
\* loop body: the call before the loop and the sleep that ends the loop body
\* are outside both
Caught(d) ==
    \/ d.pc \in {"gql", "gql_retry", "build", "sleep_fail"}
    \/ d.pc \in {"session", "session_wait"} /\ d.est_for # "init"

\* Ctrl-C while the run blocks: `except KeyboardInterrupt: ... break` and the
\* closing log line, or the exception leaves run_detail_scrape
KeyboardInterrupt ==
    /\ dt.pc \in Blocking
    /\ dt' = IF Caught(dt) THEN [dt EXCEPT !.pc = "done", !.how = "stopped"]
             ELSE [dt EXCEPT !.pc = "interrupted", !.how = "raised"]
    /\ UNCHANGED <<file, seen_ids, offDetail>>

InitDetail ==
    /\ IdleStore /\ IdleCp /\ IdleCpHist /\ IdleScrape /\ IdleFetch /\ IdleRl /\ IdleAll
    /\ max_pages = MaxPages
    /\ IdleDetail /\ IdleLate

NextDetail ==
    \/ DetailStart
    \/ \E o \in {"token", "no_token", "exception"} : SessionGet(o)
    \/ SessionWaitDone
    \/ \E ok \in BOOLEAN : GraphqlDone(ok)
    \/ \E ok \in BOOLEAN : RetryDone(ok)
    \/ RecordStored
    \/ \E early \in BOOLEAN : BuildFails(early)
    \/ RowFetch
    \/ RowRaises
    \/ FailSleepDone
    \/ RowSleepDone
    \/ KeyboardInterrupt

SpecDetail == InitDetail /\ [][NextDetail]_vars

\* C19: a refresh in the loop that obtained no token aborts the run, and no
\* GraphQL request is sent with an empty token.
C19_FailedRefreshAborts ==
    /\ dt.refresh_failed => dt.pc = "aborted"
    /\ ~dt.sent_empty

\* C20: _get_session_and_csrf makes at most 3 page fetches, waits
\* 30 * 2^attempt after each attempt without a token and returns at the first
\* page with a token; when the call before the loop got no token, the run has
\* aborted after 3 fetches, with no GraphQL request sent and nothing stored.
C20_Establishment ==
    /\ dt.fetches <= SessionRetries
    /\ \A a \in 1..Len(dt.waits) : dt.waits[a] = 30 * (2 ^ (a - 1))
    /\ dt.pc = "session" => Len(dt.waits) = dt.fetches
    /\ (dt.pc \notin {"idle", "session", "session_wait"} /\ dt.csrf # ""
          /\ dt.how \notin {"stopped", "raised"})
          => Len(dt.waits) = dt.fetches - 1
    /\ (dt.est_for = "init" /\ dt.pc \notin {"idle", "session", "session_wait"}
          /\ dt.csrf = "" /\ dt.how # "raised")
          => /\ dt.pc = "aborted"
             /\ dt.fetches = SessionRetries
             /\ dt.sent = 0
             /\ dt.success = 0
             /\ SlugsOf(LoadAll(file)) = dt.already_scraped

\* the first session was asked for three times without a token: the run
\* has aborted after waits of 30, 60 and 120 seconds
C20_Witness ==
    /\ dt.pc = "aborted" /\ dt.est_for = "init" /\ dt.runs = 1
    /\ dt.waits = <<30, 60, 120>>
    /\ dt.sent = 0 /\ file = <<>>

\* the loop has passed or reached every row before position i: each is
\* stored or had its GraphQL request sent in this run
Attempted ==
    dt.pc \in Blocking \cup {"row", "done"} /\ dt.est_for # "init" /\ dt.how # "nothing_to_do"
        => \A k \in 1..Len(Rows) :
              (k < dt.i \/ (k = dt.i /\ dt.pc \in {"gql", "gql_retry", "build"}))
                  => Rows[k] \in dt.already_scraped \cup dt.tried

\* C21: a line is appended to the detail store only by the step that ends
\* the building of a record for which GraphQL data was obtained, and it is
\* that row's record; every other step of a run (a failed fetch, a failed
\* build, an interrupt, a sleep) leaves the log, count and already_scraped
\* as they were; the next run starts from the slugs of the log, so a slug
\* whose enrichment failed or was interrupted is not skipped by its loop.
C21_StoredOnlyWhenBuilt ==
    [][ /\ file' # file
            => /\ dt.pc = "build" /\ dt.project_data
               /\ file' = Append(file, Dumps(DetailOf(Rows[dt.i])))
        /\ (file' = file /\ dt'.runs = dt.runs)
            => /\ Count(seen_ids') = Count(seen_ids)
               /\ dt'.already_scraped = dt.already_scraped
        /\ dt'.runs # dt.runs
            => /\ file' = file
               /\ dt'.already_scraped = SlugsOf(LoadAll(file))
               /\ dt'.prev \cap dt'.already_scraped = {}
        /\ Attempted' ]_vars

\* a slug whose enrichment failed or was interrupted in the first run has
\* its record built in the second, with nothing stored for it in between
C21_Witness ==
    /\ dt.runs = 2 /\ dt.pc = "sleep_row"
    /\ Rows[dt.i] \in dt.prev
    /\ Rows[dt.i] \in SlugsOf(LoadAll(file))

\* the slugs of the detail store
Stored == SlugsOf(LoadAll(file))

\* C30: over runs that finish, abort or are interrupted, a GraphQL request is
\* in flight (or its record being built) only for a slug that is not in the
\* detail store; no slug has two lines in the store; and a run that starts
\* with every slug stored ends at once, having asked for no session and
\* sent no request.
C30_NoRefetch ==
    [][ /\ dt'.pc \in {"gql", "gql_retry", "build"} => Rows[dt'.i] \notin SlugsOf(LoadAll(file'))
        /\ dt'.tried \cap SlugsOf(LoadAll(file)) \subseteq dt.tried
        /\ \A k \in 1..Len(Rows) :
              Cardinality({ n \in 1..Len(file') : file'[n].rec.id = Rows[k] }) <= 1
        /\ (dt'.runs # dt.runs /\ \A k \in 1..Len(Rows) : Rows[k] \in Stored)
              => /\ dt'.pc = "done" /\ dt'.how = "nothing_to_do"
                 /\ dt'.est_for = "none" /\ dt'.fetches = 0 /\ dt'.sent = 0
        /\ dt.how = "nothing_to_do" => (dt'.runs # dt.runs \/ dt' = dt) ]_vars

\* an interrupted run, a run that stored the rest, and a third run that
\* found every slug stored and ended without a session or a request
C30_Witness ==
    /\ dt.runs = 3 /\ dt.how = "nothing_to_do"
    /\ dt.hows[1] \in {"stopped", "raised"} /\ dt.hows[2] = "finished"
    /\ Len(LoadAll(file)) = Len(Rows)
    /\ dt.sent = 0 /\ dt.fetches = 0

\* the run blocks inside the for loop over the rows
InLoop(d) == d.pc \in Blocking /\ ~(d.pc \in {"session", "session_wait"} /\ d.est_for = "init")

\* C22: an interrupt that arrives while the detail loop blocks in a fetch or a
\* sleep is caught in the loop: the run ends with its closing report, the
\* interrupt does not leave run_detail_scrape, and the log is as it was;
\* likewise an interrupt never leaves the discovery loop.
C22_InterruptCaught ==
    [][ /\ (InLoop(dt) /\ dt'.how \in {"stopped", "raised"})
            => /\ dt'.pc = "done" /\ dt'.how = "stopped"
               /\ dt'.success = dt.success
               /\ file' = file
        /\ run_pc' # "interrupted" ]_vars

\* the step in which the first fetch of a row returns None
FetchFails == dt.pc = "gql" /\ dt'.streak = dt.streak + 1

\* C33: the first failure of a run of consecutive fetch failures skips the
\* slug with no refresh and no retry; each later failure of the run refreshes
\* the session and retries the same slug once, and nothing retries again.
C33_RefreshFromSecond ==
    [][ /\ FetchFails =>
              IF dt'.streak = 1 THEN dt'.pc = "sleep_fail"
              ELSE dt'.pc = "session" /\ dt'.est_for = "after2"
        /\ (dt.pc \in {"session", "session_wait"} /\ dt.est_for = "after2"
              /\ dt'.pc \notin {"session", "session_wait", "done", "aborted"})
             => dt'.pc = "gql_retry" /\ dt'.i = dt.i
        /\ dt'.pc = "gql_retry" => dt.est_for = "after2" /\ dt.pc # "gql_retry"
      ]_vars

\* C34: consecutive_fails never exceeds the threshold of the pause; when the
\* pause ends the counter is zero, and a stored record leaves it zero.
C34_CounterBounded ==
    /\ dt.consecutive_fails <= PauseAfter
    /\ (dt.pc = "sleep_row" /\ Rows[dt.i] \in dt.already_scraped)
         => dt.consecutive_fails = 0

\* C35: between two successes at most one periodic refresh is made, and none
\* unless the number of successes is a positive multiple of
\* csrf_refresh_interval.
C35_OnePeriodicRefresh ==
    /\ dt.periodic <= 1
    /\ dt.periodic > 0
         => dt.success > 0 /\ dt.success % CsrfRefreshInterval = 0

(***************************************************************************)
(* api/client.py: RateLimiter                                              *)
(***************************************************************************)

\* mutant of HoldsLock: no mutual exclusion
HoldsLockAny(c) == \E i \in 1..Len(lockq) : lockq[i] = c
\* `async with self._lock`: the caller at the head of the queue holds the lock
HoldsLock(c) == lockq # <<>> /\ Head(lockq) = c
Without(q, c) == SelectSeq(q, LAMBDA x : x # c)

\* `self._last = time.monotonic()` and the lock is released
Stamp(c) ==
    /\ rl_last' = now
    /\ grant_times' = Append(grant_times, now)
    /\ lockq' = Without(lockq, c)
    /\ c_pc' = [c_pc EXCEPT ![c] = "idle"]

\* time passes
Tick ==
    /\ now < MaxTime
    /\ now' = now + 1
    /\ UNCHANGED <<rl_last, lockq, c_pc, wake, grant_times, storeVars, cpVars,
                   scrapeVars, fetchVars, restVars>>

\* a task calls acquire() and queues for the lock
CallAcquire(c) ==
    /\ rl_cfg.state = "built"
    /\ c_pc[c] = "idle"
    /\ Len(grant_times) + Len(lockq) < MaxGrants
    /\ lockq' = Append(lockq, c)
    /\ c_pc' = [c_pc EXCEPT ![c] = "waiting"]
    /\ UNCHANGED <<now, rl_last, wake, grant_times, storeVars, cpVars, scrapeVars,
                   fetchVars, restVars>>

\* the caller has the lock: now = time.monotonic();
\* wait = self._last + self._interval - now; sleeps if wait > 0, else stamps
EnterLock(c) ==
    /\ c_pc[c] = "waiting"
    /\ HoldsLock(c)
    /\ IF rl_last + rl_cfg.interval - now > 0
       THEN /\ c_pc' = [c_pc EXCEPT ![c] = "sleeping"]
            /\ wake' = [wake EXCEPT ![c] = rl_last + rl_cfg.interval]
            /\ UNCHANGED <<rl_last, lockq, grant_times>>
       ELSE Stamp(c) /\ UNCHANGED wake
    /\ UNCHANGED <<now, storeVars, cpVars, scrapeVars, fetchVars, restVars>>

\* asyncio.sleep(wait) is over, at the earliest wait after it began
SleepOver(c) ==
    /\ c_pc[c] = "sleeping"
    /\ now >= wake[c]
    /\ Stamp(c)
    /\ UNCHANGED <<now, wake, storeVars, cpVars, scrapeVars, fetchVars, restVars>>

NextLimiter ==
    \/ Tick
    \/ \E c \in Callers : CallAcquire(c)
    \/ \E c \in Callers : EnterLock(c)
    \/ \E c \in Callers : SleepOver(c)

InitLimiter ==
    /\ IdleStore /\ IdleCp /\ IdleScrape /\ IdleFetch /\ IdleRest
    /\ now \in 0..Interval
    /\ rl_last = 0
    /\ lockq = <<>>
    /\ c_pc = [c \in Callers |-> "idle"]
    /\ wake = [c \in Callers |-> 0]
    /\ grant_times = <<>>

SpecLimiter == InitLimiter /\ [][NextLimiter]_vars

\* C9: with any number of concurrent callers and any interleaving, two
\* successive grants are at least the interval apart on the shared clock.
C9_GrantsSpaced ==
    \A i \in 2..Len(grant_times) : grant_times[i] - grant_times[i - 1] >= Interval

\* two grants were made and callers are contending: one sleeps in the lock
\* while another waits for it
C9_Witness ==
    /\ Len(grant_times) >= 2
    /\ Len(lockq) = NCallers
    /\ \E c \in Callers : c_pc[c] = "sleeping"

(***************************************************************************)
(* RateLimiter(rps) for the rates a configuration can give                 *)
(***************************************************************************)
\* rate_limit_rps of the configuration
Rates == {-2, -1, 0, 1}
\* 1.0 / rps in clock ticks, for rps # 0
IntervalOf(rps) == IF rps < 0 THEN 0 - (Interval \div (0 - rps)) ELSE Interval \div rps

\* RateLimiter.__init__: `self._interval = 1.0 / rps` raises ZeroDivisionError
\* for rps = 0
RlConstruct ==
    /\ rl_cfg.state = "new"
    /\ rl_cfg' = IF rl_cfg.rps = 0 THEN [rl_cfg EXCEPT !.state = "raised"]
                 ELSE Built(rl_cfg.rps, IntervalOf(rl_cfg.rps))
    /\ UNCHANGED <<storeVars, cpVars, scrapeVars, fetchVars, rlVars, cpHist, pgVars,
                   dt, ad, hr>>

InitRate ==
    /\ IdleStore /\ IdleCp /\ IdleScrape /\ IdleFetch /\ IdleCpHist /\ IdleAll
    /\ max_pages = MaxPages /\ IdleDetail /\ ad = NoAdders /\ hr = NoHtml
    /\ rl_cfg \in { [rps |-> r, interval |-> 0, state |-> "new"] : r \in Rates }
    /\ now \in 0..Interval
    /\ rl_last = 0
    /\ lockq = <<>>
    /\ c_pc = [c \in Callers |-> "idle"]
    /\ wake = [c \in Callers |-> 0]
    /\ grant_times = <<>>

NextRate ==
    \/ RlConstruct
    \/ Tick
    \/ \E c \in Callers : CallAcquire(c)
    \/ \E c \in Callers : EnterLock(c)
    \/ \E c \in Callers : SleepOver(c)

SpecRate == InitRate /\ [][NextRate]_vars

\* C28: a limiter configured with rps <= 0 is constructed without an error
\* and none of its acquire() calls waits.
C28_NonPositiveNoWait ==
    rl_cfg.rps <= 0 =>
        /\ rl_cfg.state # "raised"
        /\ \A c \in Callers : c_pc[c] # "sleeping"

(***************************************************************************)
(* JSONStore.add invoked by several callers on one store instance: the     *)
(* membership test, the append and the update of _seen_ids are separate    *)
(* statements with no lock around them                                     *)
(***************************************************************************)
offAdders == <<last, cpVars, scrapeVars, fetchVars, rlVars, cpHist, pgVars, dt, rl_cfg,
               hr>>
\* the records the callers add
AddRecs == { r \in Records : r.id # None /\ r.id < 3 }
\* an invocation that passed the membership test and has not returned
InAdd(c) == ad.calls[c].pc \in {"write", "remember"}

\* add(r) is called: `pid = record.get("id")`, `if pid in self._seen_ids:
\* return False`
AddCheck(c, r) ==
    /\ ad.calls[c].pc = "idle"
    /\ Len(file) + Cardinality({ d \in Callers : ad.calls[d].pc = "write" }) < MaxFile
    /\ ad' = [ad EXCEPT
          !.calls[c] = IF AddAccepts(seen_ids, r)
                       THEN [pc |-> "write", rec |-> r, ret |-> "none"]
                       ELSE [pc |-> "idle", rec |-> r, ret |-> "False"],
          !.overlap = @ \/ \E d \in Callers \ {c} : InAdd(d) /\ ad.calls[d].rec.id = r.id]
    /\ UNCHANGED <<file, seen_ids, offAdders>>

\* `with open(self.path, "a") as f: f.write(json.dumps(record, ...) + "\n")`
AddWrite(c) ==
    /\ ad.calls[c].pc = "write"
    /\ file' = AddFile(file, ad.calls[c].rec)
    /\ ad' = [ad EXCEPT !.calls[c].pc = "remember"]
    /\ UNCHANGED <<seen_ids, offAdders>>

\* `self._seen_ids.add(pid)`, `return True`
AddReturn(c) ==
    /\ ad.calls[c].pc = "remember"
    /\ seen_ids' = AddSeen(seen_ids, ad.calls[c].rec)
    /\ ad' = [ad EXCEPT !.calls[c] = [pc |-> "idle", rec |-> @.rec, ret |-> "True"],
                        !.trues = Append(@, ad.calls[c].rec.id)]
    /\ UNCHANGED <<file, offAdders>>

InitAdders ==
    /\ IdleStore /\ IdleCp /\ IdleScrape /\ IdleFetch /\ IdleRl /\ IdleRest

NextAdders ==
    \/ \E c \in Callers, r \in AddRecs : AddCheck(c, r)
    \/ \E c \in Callers : AddWrite(c)
    \/ \E c \in Callers : AddReturn(c)

SpecAdders == InitAdders /\ [][NextAdders]_vars

\* lines of the log that carry id, True returns for id, and invocations
\* that have written their line and not returned yet
LinesWith(id) == Cardinality({ i \in 1..Len(file) : file[i].rec.id = id })
TruesWith(id) == Cardinality({ i \in 1..Len(ad.trues) : ad.trues[i] = id })
Returning(id) ==
    Cardinality({ c \in Callers : ad.calls[c].pc = "remember" /\ ad.calls[c].rec.id = id })
OnePerId ==
    \A id \in { r.id : r \in AddRecs } :
        /\ LinesWith(id) <= 1
        /\ TruesWith(id) + Returning(id) = LinesWith(id)

\* C23 as stated: whatever the interleaving of the invocations, the log holds
\* at most one line per id and exactly one invocation per id returned True.
C23_OnePerIdAlways == OnePerId

(***************************************************************************)
(* api/client.py: KickstarterClient._request_html and _playwright_get      *)
(***************************************************************************)
offHtml == <<storeVars, cpVars, scrapeVars, fetchVars, rlVars, cpHist, pgVars, dt, ad,
             rl_cfg>>
\* the most _request_html calls followed on one client
MaxHtml == 3

\* mutant of FallsBack: an exception of curl is taken for a page
FallsBackOnStatus(o) == o.kind = "resp" /\ o.status # 200
\* `if status == 200: return body`, and `except Exception: pass`: anything
\* else goes on to the fallback
FallsBack(o) == ~(o.kind = "resp" /\ o.status = 200)

\* _playwright_get is entered: `if not self._browser:` launches first
PlaywrightGet(d) ==
    [d EXCEPT !.secondary = @ + 1,
              !.pc = IF d.browser = "none" THEN "launch" ELSE "goto"]

\* _request_html is called
HtmlStart ==
    /\ hr.pc \in {"idle", "returned", "raised"}
    /\ hr.calls < MaxHtml
    /\ hr' = [hr EXCEPT !.pc = "acquire", !.calls = @ + 1, !.grants = 0,
                        !.primary = 0, !.secondary = 0, !.out = NoOutcome,
                        !.result = "none"]
    /\ UNCHANGED offHtml

\* `await self._rate_limiter.acquire()` returned
HtmlAcquired ==
    /\ hr.pc = "acquire"
    /\ hr' = [hr EXCEPT !.pc = "curl", !.grants = @ + 1]
    /\ UNCHANGED offHtml

\* `await self._curl_get_async(url)` returned or raised
HtmlCurlDone(o) ==
    /\ hr.pc = "curl"
    /\ LET d1 == [hr EXCEPT !.primary = @ + 1, !.out = o] IN
        hr' = IF FallsBack(o) THEN PlaywrightGet(d1)
              ELSE [d1 EXCEPT !.pc = "returned", !.result = "curl_body"]
    /\ UNCHANGED offHtml

\* the lazy launch: everything worked ("ready"), new_page raised after
\* self._browser was assigned ("no_page"), or start or launch raised ("none")
HtmlLaunched(b) ==
    /\ hr.pc = "launch"
    /\ hr' = IF b = "ready" THEN [hr EXCEPT !.pc = "goto", !.browser = b]
             ELSE [hr EXCEPT !.pc = "raised", !.result = "raised", !.browser = b]
    /\ UNCHANGED offHtml

\* `await self._page.goto(...)` and `self._page.content()` returned or raised;
\* without a page the call raises
HtmlGotoDone(ok) ==
    /\ hr.pc = "goto"
    /\ ok => hr.browser = "ready"
    /\ hr' = IF ok THEN [hr EXCEPT !.pc = "returned", !.result = "browser_content"]
             ELSE [hr EXCEPT !.pc = "raised", !.result = "raised"]
    /\ UNCHANGED offHtml

InitHtml ==
    /\ IdleStore /\ IdleCp /\ IdleScrape /\ IdleFetch /\ IdleRl /\ IdleRest

NextHtml ==
    \/ HtmlStart
    \/ HtmlAcquired
    \/ \E o \in Outcomes : HtmlCurlDone(o)
    \/ \E b \in {"ready", "no_page", "none"} : HtmlLaunched(b)
    \/ \E ok \in BOOLEAN : HtmlGotoDone(ok)

SpecHtml == InitHtml /\ [][NextHtml]_vars

\* C40: one HTML fetch takes one grant of the limiter, makes one curl attempt
\* and at most one browser attempt; the browser is tried when curl raised,
\* and when the browser raises the fetch raises with no further curl attempt.
C40_OneOfEach ==
    /\ hr.grants <= 1 /\ hr.primary <= 1 /\ hr.secondary <= 1
    /\ hr.pc \in {"returned", "raised"} => hr.grants = 1 /\ hr.primary = 1
    /\ hr.out.kind = "exc" => hr.secondary = 1
    /\ hr.result = "raised" => hr.pc = "raised" /\ hr.primary = 1 /\ hr.secondary = 1
    /\ hr.pc = "raised" => hr.result = "raised"

\* curl raised, the browser was tried and raised too: the second fetch of a
\* client has ended with the error
C40_Witness ==
    /\ hr.pc = "raised" /\ hr.calls = 2
    /\ hr.out = Raised
    /\ hr.grants = 1 /\ hr.primary = 1 /\ hr.secondary = 1

====
